---- MODULE Spec2Model ----
(***************************************************************************)
(* GhostLink backend: the in-memory chat service (burner text rooms and    *)
(* ephemeral messages), the video-signaling room service, the meeting      *)
(* service, the REST meeting store and the Redis variant of the chat       *)
(* service, as state machines.  One action per service method or route     *)
(* handler; the JavaScript event loop runs each synchronous handler to     *)
(* completion, so a synchronous handler is one atomic step.                *)
(*                                                                         *)
(* Time is counted in ticks.  The durations of the code (5 minutes, 1, 4   *)
(* and 24 hours) are scaled down to a few ticks each; the comparisons      *)
(* against Date.now() keep the operator (<, <=, >) the code uses.          *)
(***************************************************************************)
EXTENDS Integers, Sequences, FiniteSets, TLC

(* ------------------------------ bounds --------------------------------- *)
MaxTime == 4
NumAnon == 2
MaxRooms == 1
MaxMsgs == 2
NumSockets == 3
MaxVRooms == 2
NumAnonCap == 11
NumMSockets == 2
MaxMeetings == 1
MaxRest == 1
MaxTasks == 2
MaxAuthTime == 8
MaxTokens == 2
NumFingerprints == 2
MaxHits == 7
MaxRateTime == 3
PrivacyWindow == 2
PrivacyMax == 2
MaxAdjustTime == 12
FloodMsgs == 31
NumPayloads == 2
MaxIce == 2

(* ------------------------- program constants --------------------------- *)
\* chatService.js:49, message expiry (5 minutes), in ticks
MsgTTL == 2
\* chatService.js:170, burner room expiry (24 hours), in ticks
RoomTTL == 3
\* chatService.js:172
TextMaxParticipants == 10
\* part_005:401
VideoMaxParticipants == 2
\* part_005:610, video room maximum age (4 hours), in ticks
VideoMaxAge == 2
\* rateLimiter.js:381, default limit of the messages route
DefaultLimit == 50
\* part_005:22, default meeting duration (1 hour), in ticks
MeetingDuration == 1
\* part_005:283, grace period after the meeting's end (1 hour), in ticks
MeetingGrace == 1
\* part_005:24 and part_001:54, default maxParticipants of a meeting
DefaultMaxParticipants == 10
\* part_005:134 and part_005:247, delay of the delete timer (5 minutes), in ticks
DeleteDelay == 1
\* part_001:53, default lifetime of a REST meeting (60 minutes), in ticks
RestDuration == 2
\* part_004:45, Date.now() / 1000: the ticks in one second of token time
TicksPerSecond == 2
\* part_004:46, token lifetime (60 * 60 seconds), in seconds of token time
TokenLifetime == 2
\* auth.js:109, refresh threshold (10 * 60 * 1000 ms), in ticks
RefreshThreshold == 2
\* rateLimiter.js:126, AdaptiveRateLimiter.basePoints
BasePoints == 100
\* rateLimiter.js:127, the initial multiplier 1.0, in tenths
InitialMultiplier == 10
\* rateLimiter.js:146, the lower clamp 0.5, in tenths
MinMultiplier == 5
\* rateLimiter.js:149, the upper clamp 2.0, in tenths
MaxMultiplier == 20
\* rateLimiter.js:133, period of the adjustLimits interval (30 seconds), in ticks
AdjustPeriod == 1

Anon == 1..NumAnon
AnonCap == 1..NumAnonCap
Sockets == 1..NumSockets
\* socket.anonId, the identity a socket authenticated with: sockets 1 and 3
\* are two connections of one identity
AnonOf(s) == ((s - 1) % NumAnon) + 1
\* the passcodes a create call may draw and a client may present
Passcodes == {"P1", "P2"}
\* the passcode the create calls of the runs draw
RoomPasscode == "P1"
\* key 0 is the room name 'global'; burner room ids are 1..MaxRooms
GlobalKey == 0
Keys == 0..MaxRooms
VKeys == 1..MaxVRooms
Limits == {1, DefaultLimit}
MSockets == 1..NumMSockets
MKeys == 1..MaxMeetings
RKeys == 1..MaxRest
\* maxParticipants as a create or update request gives it; 0 stands for an
\* absent (falsy) value
MaxInputs == {0, 1}
Statuses == {"waiting", "active", "ended"}
\* the text room of the capacity specification, and the identity that
\* creates its room and the video rooms
CapKeys == {1}
CapCreators == {1}
\* the operation classes of rateLimiters with their static points
RateClasses == {"api", "messages", "anonId", "roomCreation", "webrtc", "auth"}
StaticPoints ==
  [c \in RateClasses |->
     CASE c = "api" -> 100
       [] c = "messages" -> 30
       [] c = "anonId" -> 5
       [] c = "roomCreation" -> 3
       [] c = "webrtc" -> 200
       [] c = "auth" -> 10]
\* duration and blockDuration of each class, scaled down to ticks
Duration ==
  [c \in RateClasses |->
     CASE c = "api" -> 2
       [] c = "messages" -> 2
       [] c = "anonId" -> 2
       [] c = "roomCreation" -> 3
       [] c = "webrtc" -> 2
       [] c = "auth" -> 2]
BlockDuration ==
  [c \in RateClasses |->
     CASE c = "api" -> 2
       [] c = "messages" -> 3
       [] c = "anonId" -> 2
       [] c = "roomCreation" -> 2
       [] c = "webrtc" -> 2
       [] c = "auth" -> 3]
Fingerprints == 1..NumFingerprints
Loads == {"high", "mid", "low"}
\* a socket object before its connection: 0 stands for null
NewSocket == [st |-> "new", currentVideoRoom |-> 0, currentMeeting |-> 0,
              joined |-> {}]

VARIABLES
  now,        \* Date.now()
  alive,      \* the node process runs (an uncaught exception in a timer ends it)
  res,        \* the outcome of the last call: what the caller got back
  messages,   \* ChatService.messages: message id -> message
  rooms,      \* ChatService.rooms: key -> burner room record or array of message ids
  roomOrder,  \* insertion order of ChatService.rooms (Map iteration order)
  nextMsg,    \* next fresh message id (uuidv4)
  nextRoom,   \* next fresh burner room id (crypto.randomBytes)
  vrooms,     \* WebRTCService.rooms: room id -> room
  vparts,     \* WebRTCService.participants: socket id -> {anonId, roomId}
  nextVRoom,  \* next fresh video room id
  meetings,   \* MeetingService.meetings: meeting id -> meeting
  mparts,     \* MeetingService.participants: socket id -> {anonId, meetingId, role}
  mtimers,    \* pending setTimeout callbacks of MeetingService: {id, due}
  nextMeeting,\* next fresh meeting id
  restMeetings, \* the meetings Map of the REST meeting routes
  nextRest,   \* next fresh REST meeting room id
  rstore,     \* Redis: room key -> {stored JSON value, end of the key's TTL}
  rtasks,     \* calls of the Redis ChatService suspended at an await
  rlast,      \* per identity: its last completed join ("join") or leave ("leave")
  nextRRoom,  \* next fresh room id of the Redis ChatService
  sockets,    \* server.js: socket id -> the socket object's state and fields
  issued,     \* the tokens generateTempToken has returned so far
  buckets,    \* rate-limiter-flexible: <<class, key>> -> {value, expiresAt}
  points,     \* rateLimiters[class].points
  currentMultiplier, \* AdaptiveRateLimiter.currentMultiplier, in tenths
  lastCheck,  \* AdaptiveRateLimiter.lastCheck
  requests,   \* privacyAwareRateLimit: key -> {count, resetTime}
  svc         \* the service the clients of this run talk to

vars == <<now, alive, res, messages, rooms, roomOrder, nextMsg, nextRoom,
          vrooms, vparts, nextVRoom, meetings, mparts, mtimers, nextMeeting,
          restMeetings, nextRest, rstore, rtasks, rlast, nextRRoom, sockets,
          issued, buckets, points, currentMultiplier, lastCheck, requests, svc>>

chatVars == <<messages, rooms, roomOrder, nextMsg, nextRoom>>
videoVars == <<vrooms, vparts, nextVRoom>>
meetingVars == <<meetings, mparts, mtimers, nextMeeting>>
restVars == <<restMeetings, nextRest>>
redisVars == <<rstore, rtasks, rlast, nextRRoom>>
authVars == <<issued>>
rateVars == <<buckets, points, currentMultiplier, lastCheck, requests>>

(* ------------------------------ helpers -------------------------------- *)
EmptyMap == [x \in {} |-> 0]
Put(f, k, v) == [x \in (DOMAIN f) \cup {k} |-> IF x = k THEN v ELSE f[x]]
Del(f, k) == [x \in (DOMAIN f) \ {k} |-> f[x]]
SeqDel(s, k) == SelectSeq(s, LAMBDA x : x # k)
SeqSet(s) == {s[i] : i \in 1..Len(s)}

\* what a caller gets back: the operation, its target, the caller, the
\* outcome and the returned data.  A response belongs to the instant of its
\* call: Tick clears it, so res # NoRes was produced at the current now.
Res(op, id, who, out, data) ==
  [op |-> op, id |-> id, who |-> who, out |-> out, data |-> data]
NoRes == Res("none", 0, 0, "none", 0)

(* ---------------------- ChatService (in memory) ------------------------ *)
\* a burner room record as createBurnerRoom builds it
BurnerRoom(passcode, creator) ==
  [kind |-> "room", passcode |-> passcode, creator |-> creator,
   created |-> now, expires |-> now + RoomTTL, participants |-> {creator},
   maxParticipants |-> TextMaxParticipants, ids |-> <<>>]

\* an array of message ids as storeMessage keeps it under a room name
IdArray(ids) ==
  [kind |-> "ids", passcode |-> "", creator |-> 0, created |-> 0,
   expires |-> 0, participants |-> {}, maxParticipants |-> 0, ids |-> ids]

IsRoom(k) == k \in DOMAIN rooms /\ rooms[k].kind = "room"
IsIdArray(k) == k \in DOMAIN rooms /\ rooms[k].kind = "ids"

createBurnerRoom(a, p) ==
  /\ alive
  /\ nextRoom <= MaxRooms
  /\ rooms' = Put(rooms, nextRoom, BurnerRoom(p, a))
  /\ roomOrder' = Append(roomOrder, nextRoom)
  /\ nextRoom' = nextRoom + 1
  /\ res' = Res("createBurnerRoom", nextRoom, a, "ok", p)
  /\ UNCHANGED <<messages, nextMsg>>

\* an off-by-one capacity test: admits one participant past the maximum
RoomIsFullOffByOne(room) == Cardinality(room.participants) > room.maxParticipants

\* the capacity test of joinBurnerRoom
RoomIsFull(room) == Cardinality(room.participants) >= room.maxParticipants

\* the checks without the passcode comparison
joinBurnerRoomNoPasscode(k, p) ==
  IF k \notin DOMAIN rooms THEN "Room not found"
  ELSE IF rooms[k].kind = "ids" THEN "Invalid passcode"
  ELSE IF rooms[k].expires <= now THEN "Room expired"
  ELSE IF RoomIsFull(rooms[k]) THEN "Room is full"
  ELSE "ok"

\* the checks in another order: the passcode is compared before the expiry
joinBurnerRoomPasscodeFirst(k, p) ==
  IF k \notin DOMAIN rooms THEN "Room not found"
  ELSE IF rooms[k].passcode # p THEN "Invalid passcode"
  ELSE IF rooms[k].kind = "room" /\ rooms[k].expires <= now THEN "Room expired"
  ELSE IF RoomIsFull(rooms[k]) THEN "Room is full"
  ELSE "ok"

\* the checks of joinBurnerRoom, in the order the code makes them.  An array
\* of message ids has no expires and no passcode: undefined <= now is false
\* and undefined !== passcode is true for every passcode string.
joinBurnerRoomOutcome(k, p) ==
  IF k \notin DOMAIN rooms THEN "Room not found"
  ELSE IF rooms[k].kind = "ids" THEN "Invalid passcode"
  ELSE IF rooms[k].expires <= now THEN "Room expired"
  ELSE IF rooms[k].passcode # p THEN "Invalid passcode"
  ELSE IF RoomIsFull(rooms[k]) THEN "Room is full"
  ELSE "ok"

\* a failed join answers with the error; data keeps the passcode presented
joinBurnerRoom(k, p, a) ==
  LET out == joinBurnerRoomOutcome(k, p) IN
  /\ alive
  /\ UNCHANGED <<messages, nextMsg, nextRoom>>
  /\ IF out = "Room expired"
     THEN /\ rooms' = Del(rooms, k)
          /\ roomOrder' = SeqDel(roomOrder, k)
          /\ res' = Res("joinBurnerRoom", k, a, out, p)
     ELSE IF out = "ok"
     THEN /\ rooms' = [rooms EXCEPT ![k].participants = @ \cup {a}]
          /\ res' = Res("joinBurnerRoom", k, a, "ok",
                        Cardinality(rooms[k].participants \cup {a}))
          /\ UNCHANGED roomOrder
     ELSE /\ res' = Res("joinBurnerRoom", k, a, out, p)
          /\ UNCHANGED <<rooms, roomOrder>>

leaveBurnerRoom(k, a) ==
  /\ alive
  /\ UNCHANGED <<messages, nextMsg, nextRoom>>
  /\ res' = Res("leaveBurnerRoom", k, a, "ok", 0)
  /\ IF IsRoom(k)
     THEN IF rooms[k].participants \ {a} = {}
          THEN /\ rooms' = Del(rooms, k)
               /\ roomOrder' = SeqDel(roomOrder, k)
          ELSE /\ rooms' = [rooms EXCEPT ![k].participants = @ \ {a}]
               /\ UNCHANGED roomOrder
     ELSE UNCHANGED <<rooms, roomOrder>>

\* the room names a client can put in a message: 'global' and the ids of the
\* burner rooms created so far
KnownKeys == 0..(nextRoom - 1)

Max(a, b) == IF a >= b THEN a ELSE b

\* Array.prototype.slice(-limit) for limit >= 1: the last limit elements
LastN(q, n) == SubSeq(q, Max(1, Len(q) - n + 1), Len(q))

\* storeMessage: the message goes into the message map first; then the id is
\* pushed onto the array kept under the room name.  When the name is the id of
\* a burner room, rooms.get(name) is the room record, which has no push:
\* TypeError, after the message map was written.
storeMessage(id, msg) ==
  /\ messages' = Put(messages, id, msg)
  /\ IF msg.room \notin DOMAIN rooms
     THEN /\ rooms' = Put(rooms, msg.room, IdArray(<<id>>))
          /\ roomOrder' = Append(roomOrder, msg.room)
     ELSE IF rooms[msg.room].kind = "ids"
     THEN /\ rooms' = [rooms EXCEPT ![msg.room].ids = Append(@, id)]
          /\ UNCHANGED roomOrder
     ELSE UNCHANGED <<rooms, roomOrder>>

StoreRaises(msg) == IsRoom(msg.room)

\* processMessage(data, anonId); textOk is the outcome of the two checks on
\* data.text, k is data.room || 'global'
\* what processMessage does to the store, in a run of at most cap messages
processMessageStore(k, a, textOk, cap) ==
  /\ alive
  /\ UNCHANGED nextRoom
  /\ IF ~textOk
     THEN UNCHANGED <<messages, rooms, roomOrder, nextMsg>>
     ELSE /\ nextMsg <= cap
          /\ nextMsg' = nextMsg + 1
          /\ storeMessage(nextMsg, [id |-> nextMsg, anonId |-> a, room |-> k,
                                    expires |-> now + MsgTTL])

\* what processMessage returns or throws
processMessageResult(k, a, textOk) ==
  LET msg == [id |-> nextMsg, anonId |-> a, room |-> k,
              expires |-> now + MsgTTL] IN
  IF ~textOk THEN Res("processMessage", k, a, "Invalid message content", 0)
  ELSE IF StoreRaises(msg) THEN Res("processMessage", k, a, "TypeError", 0)
  ELSE Res("processMessage", k, a, "ok", msg)

processMessage(k, a, textOk) ==
  /\ processMessageStore(k, a, textOk, MaxMsgs)
  /\ res' = processMessageResult(k, a, textOk)

\* a filter that lets a message through at the instant it expires
UnexpiredInclusive(id) == id \in DOMAIN messages /\ messages[id].expires >= now

\* the filter of getRecentMessages: msg && msg.expires > Date.now()
Unexpired(id) == id \in DOMAIN messages /\ messages[id].expires > now

\* getRecentMessages(room, limit): on a burner room id rooms.get(room) is the
\* room record, which has no slice: TypeError
getRecentMessages(k, limit) ==
  /\ alive
  /\ UNCHANGED chatVars
  /\ IF IsRoom(k)
     THEN res' = Res("getRecentMessages", k, 0, "TypeError", <<>>)
     ELSE LET ids == IF k \in DOMAIN rooms THEN rooms[k].ids ELSE <<>>
              recent == SelectSeq(LastN(ids, limit), Unexpired)
          IN res' = Res("getRecentMessages", k, 0, "ok",
                        [i \in 1..Len(recent) |-> messages[recent[i]]])

\* getRoomInfo(roomId): null when the key is absent, the summary otherwise
getRoomInfo(k) ==
  /\ alive
  /\ UNCHANGED chatVars
  /\ IF k \notin DOMAIN rooms
     THEN res' = Res("getRoomInfo", k, 0, "null", 0)
     ELSE res' = Res("getRoomInfo", k, 0, "info",
                     [kind |-> rooms[k].kind,
                      participantCount |-> Cardinality(rooms[k].participants),
                      expires |-> rooms[k].expires,
                      timeRemaining |-> Max(0, rooms[k].expires - now)])

\* cleanupExpiredMessages, run by the 5-minute interval timer.  The second
\* loop walks rooms in insertion order and calls messageIds.filter on each
\* value: on the first burner room record it raises TypeError, inside the
\* timer callback, which ends the process.
LiveMessages == [id \in {i \in DOMAIN messages : messages[i].expires > now}
                   |-> messages[id]]
FirstRoomIdx ==
  IF \E i \in 1..Len(roomOrder) : rooms[roomOrder[i]].kind = "room"
  THEN CHOOSE i \in 1..Len(roomOrder) :
         /\ rooms[roomOrder[i]].kind = "room"
         /\ \A j \in 1..(i - 1) : rooms[roomOrder[j]].kind = "ids"
  ELSE Len(roomOrder) + 1
SweepRaises == FirstRoomIdx <= Len(roomOrder)
ValidIds(k) == SelectSeq(rooms[k].ids, LAMBDA id : id \in DOMAIN LiveMessages)
Visited == {roomOrder[i] : i \in 1..(FirstRoomIdx - 1)}
Emptied == {k \in Visited : ValidIds(k) = <<>>}

cleanupExpiredMessages ==
  /\ alive
  /\ messages' = LiveMessages
  /\ rooms' = [k \in (DOMAIN rooms) \ Emptied |->
                 IF k \in Visited THEN IdArray(ValidIds(k)) ELSE rooms[k]]
  /\ roomOrder' = SelectSeq(roomOrder, LAMBDA k : k \notin Emptied)
  /\ alive' = ~SweepRaises
  /\ res' = res
  /\ UNCHANGED <<nextMsg, nextRoom>>

(* --------------------------- WebRTCService ----------------------------- *)
\* offers, answers: socket id -> payload; iceCandidate: socket id -> the
\* array of candidates
VideoRoom(a) ==
  [participants |-> {}, offers |-> EmptyMap, answers |-> EmptyMap,
   iceCandidate |-> EmptyMap,
   createdBy |-> a, createdAt |-> now,
   maxParticipants |-> VideoMaxParticipants]

createRoom(a) ==
  /\ alive
  /\ nextVRoom <= MaxVRooms
  /\ vrooms' = Put(vrooms, nextVRoom, VideoRoom(a))
  /\ nextVRoom' = nextVRoom + 1
  /\ res' = Res("createRoom", nextVRoom, a, "ok", 0)
  /\ UNCHANGED vparts

\* the capacity test of joinRoom
VRoomIsFull(room) == Cardinality(room.participants) >= room.maxParticipants

joinRoomOutcome(r) ==
  IF r \notin DOMAIN vrooms THEN "Room not found"
  ELSE IF VRoomIsFull(vrooms[r]) THEN "Room is full"
  ELSE "ok"

joinRoom(s, a, r) ==
  LET out == joinRoomOutcome(r) IN
  /\ alive
  /\ UNCHANGED nextVRoom
  /\ IF out # "ok"
     THEN /\ res' = Res("joinRoom", r, s, out, 0)
          /\ UNCHANGED <<vrooms, vparts>>
     ELSE /\ vrooms' = [vrooms EXCEPT ![r].participants = @ \cup {s}]
          /\ vparts' = Put(vparts, s, [anonId |-> a, roomId |-> r])
          /\ res' = Res("joinRoom", r, s, "ok",
                        Cardinality(vrooms[r].participants \cup {s}))

leaveRoom(s) ==
  /\ alive
  /\ UNCHANGED nextVRoom
  /\ IF s \notin DOMAIN vparts
     THEN /\ res' = Res("leaveRoom", 0, s, "Participant not found", 0)
          /\ UNCHANGED <<vrooms, vparts>>
     ELSE LET r == vparts[s].roomId IN
          /\ vparts' = Del(vparts, s)
          /\ res' = Res("leaveRoom", r, s, "ok", 0)
          /\ IF r \in DOMAIN vrooms
             THEN IF vrooms[r].participants \ {s} = {}
                  THEN vrooms' = Del(vrooms, r)
                  ELSE vrooms' = [vrooms EXCEPT ![r].participants = @ \ {s},
                                                ![r].offers = Del(@, s),
                                                ![r].answers = Del(@, s),
                                                ![r].iceCandidate = Del(@, s)]
             ELSE UNCHANGED vrooms

\* cleanupExpiredRooms, reached only through POST /api/webrtc/cleanup: no
\* timer of the server calls it
cleanupExpiredRooms ==
  /\ alive
  /\ vrooms' = [r \in {x \in DOMAIN vrooms : ~(now - vrooms[x].createdAt > VideoMaxAge)}
                  |-> vrooms[r]]
  /\ res' = Res("cleanupExpiredRooms", 0, 0, "ok", 0)
  /\ UNCHANGED <<vparts, nextVRoom>>

(* --------------------------- MeetingService ---------------------------- *)
\* createMeeting(anonId, meetingData): maxP is meetingData.maxParticipants
\* (0: absent), reqPass and autoDel are the two settings; meetingData.allowChat
\* is left out by the callers, so settings.allowChat is true
Meeting(a, p, maxP, reqPass, autoDel) ==
  [createdBy |-> a, scheduledFor |-> now, duration |-> MeetingDuration,
   passcode |-> p,
   maxParticipants |-> IF maxP = 0 THEN DefaultMaxParticipants ELSE maxP,
   isActive |-> FALSE, participants |-> {},
   requirePasscode |-> reqPass, autoDelete |-> autoDel, allowChat |-> TRUE]

createMeeting(a, p, maxP, reqPass, autoDel) ==
  /\ alive
  /\ nextMeeting <= MaxMeetings
  /\ meetings' = Put(meetings, nextMeeting, Meeting(a, p, maxP, reqPass, autoDel))
  /\ nextMeeting' = nextMeeting + 1
  /\ res' = Res("createMeeting", nextMeeting, a, "ok", p)
  /\ UNCHANGED <<mparts, mtimers>>

\* isMeetingExpired: now > scheduledFor + duration + grace
isMeetingExpired(meeting) ==
  now > meeting.scheduledFor + meeting.duration + MeetingGrace

\* an off-by-one capacity test: admits one participant past the maximum
MeetingIsFullOffByOne(meeting) ==
  Cardinality(meeting.participants) > meeting.maxParticipants

\* the capacity test of joinMeeting
MeetingIsFull(meeting) ==
  Cardinality(meeting.participants) >= meeting.maxParticipants

\* the checks of joinMeeting, in the order the code makes them
joinMeetingOutcome(m, p) ==
  IF m \notin DOMAIN meetings THEN "Meeting not found"
  ELSE IF isMeetingExpired(meetings[m]) THEN "Meeting has expired"
  ELSE IF meetings[m].requirePasscode /\ meetings[m].passcode # p
  THEN "Invalid passcode"
  ELSE IF MeetingIsFull(meetings[m]) THEN "Meeting is full"
  ELSE "ok"

joinMeeting(s, a, m, p) ==
  LET out == joinMeetingOutcome(m, p) IN
  /\ alive
  /\ UNCHANGED <<mtimers, nextMeeting>>
  /\ IF out = "Meeting has expired"
     THEN /\ meetings' = Del(meetings, m)
          /\ res' = Res("joinMeeting", m, s, out, p)
          /\ UNCHANGED mparts
     ELSE IF out # "ok"
     THEN /\ res' = Res("joinMeeting", m, s, out, p)
          /\ UNCHANGED <<meetings, mparts>>
     ELSE /\ meetings' = [meetings EXCEPT ![m].participants = @ \cup {s},
                                          ![m].isActive = TRUE]
          /\ mparts' = Put(mparts, s,
               [anonId |-> a, meetingId |-> m,
                role |-> IF meetings[m].createdBy = a THEN "host" ELSE "participant"])
          /\ res' = Res("joinMeeting", m, s, "ok",
                        Cardinality(meetings[m].participants \cup {s}))

leaveMeeting(s) ==
  /\ alive
  /\ UNCHANGED nextMeeting
  /\ IF s \notin DOMAIN mparts
     THEN /\ res' = Res("leaveMeeting", 0, s, "Participant not found", 0)
          /\ UNCHANGED <<meetings, mparts, mtimers>>
     ELSE LET m == mparts[s].meetingId IN
          /\ mparts' = Del(mparts, s)
          /\ res' = Res("leaveMeeting", m, s, "ok", 0)
          /\ IF m \in DOMAIN meetings
             THEN LET left == meetings[m].participants \ {s} IN
                  /\ meetings' = [meetings EXCEPT
                       ![m].participants = left,
                       ![m].isActive = IF left = {} THEN FALSE ELSE @]
                  /\ mtimers' = IF left = {} /\ meetings[m].autoDelete
                                THEN mtimers \cup {[id |-> m, due |-> now + DeleteDelay]}
                                ELSE mtimers
             ELSE UNCHANGED <<meetings, mtimers>>

getMeetingInfo(m) ==
  /\ alive
  /\ UNCHANGED <<mparts, mtimers, nextMeeting>>
  /\ IF m \notin DOMAIN meetings
     THEN /\ res' = Res("getMeetingInfo", m, 0, "Meeting not found", 0)
          /\ UNCHANGED meetings
     ELSE IF isMeetingExpired(meetings[m])
     THEN /\ meetings' = Del(meetings, m)
          /\ res' = Res("getMeetingInfo", m, 0, "Meeting has expired", 0)
     ELSE /\ res' = Res("getMeetingInfo", m, 0, "ok",
                        [expiry |-> meetings[m].scheduledFor + meetings[m].duration
                                    + MeetingGrace,
                         isActive |-> meetings[m].isActive])
          /\ UNCHANGED meetings

\* updateMeeting(socketId, meetingId, updates) with updates = {maxParticipants: v}
updateMeeting(s, m, v) ==
  /\ alive
  /\ UNCHANGED <<mparts, mtimers, nextMeeting>>
  /\ IF s \notin DOMAIN mparts \/ m \notin DOMAIN meetings
     THEN /\ res' = Res("updateMeeting", m, s, "Meeting or participant not found", 0)
          /\ UNCHANGED meetings
     ELSE IF mparts[s].role # "host"
     THEN /\ res' = Res("updateMeeting", m, s, "Only host can update meeting settings", 0)
          /\ UNCHANGED meetings
     ELSE /\ meetings' = [meetings EXCEPT ![m].maxParticipants = v]
          /\ res' = Res("updateMeeting", m, s, "ok", v)

endMeeting(s, m) ==
  /\ alive
  /\ UNCHANGED <<mparts, nextMeeting>>
  /\ IF s \notin DOMAIN mparts \/ m \notin DOMAIN meetings
     THEN /\ res' = Res("endMeeting", m, s, "Meeting or participant not found", 0)
          /\ UNCHANGED <<meetings, mtimers>>
     ELSE IF mparts[s].role # "host"
     THEN /\ res' = Res("endMeeting", m, s, "Only host can end the meeting", 0)
          /\ UNCHANGED <<meetings, mtimers>>
     ELSE /\ meetings' = [meetings EXCEPT ![m].isActive = FALSE,
                                          ![m].participants = {}]
          /\ mtimers' = mtimers \cup {[id |-> m, due |-> now + DeleteDelay]}
          /\ res' = Res("endMeeting", m, s, "ok", meetings[m].participants)

\* handleMeetingMessage(socketId, message): the reply only, nothing is stored
handleMeetingMessage(s) ==
  /\ alive
  /\ UNCHANGED <<meetings, mparts, mtimers, nextMeeting>>
  /\ IF s \notin DOMAIN mparts
     THEN res' = Res("handleMeetingMessage", 0, s, "Participant not found", 0)
     ELSE LET m == mparts[s].meetingId IN
          IF m \notin DOMAIN meetings \/ ~meetings[m].allowChat
          THEN res' = Res("handleMeetingMessage", m, s,
                          "Chat not allowed in this meeting", 0)
          ELSE res' = Res("handleMeetingMessage", m, s, "ok",
                          meetings[m].participants)

\* a timer that would be cancelled while somebody is in the meeting
TimerDueIfEmpty(t) ==
  /\ now >= t.due
  /\ t.id \in DOMAIN meetings => meetings[t.id].participants = {}

\* setTimeout(callback, 300000): the callback runs once the delay has passed,
\* whatever happened to the meeting in between
TimerDue(t) == now >= t.due

\* a setTimeout callback of leaveMeeting / endMeeting runs: meetings.delete(id)
meetingTimer(t) ==
  /\ alive
  /\ t \in mtimers
  /\ TimerDue(t)
  /\ meetings' = Del(meetings, t.id)
  /\ mtimers' = mtimers \ {t}
  /\ res' = res
  /\ UNCHANGED <<mparts, nextMeeting>>

(* ------------------------- REST meeting routes ------------------------- *)
\* authService.hashRoomPasscode: SHA-256, taken as injective
hashRoomPasscode(p) == <<"sha256", p>>
verifyRoomPasscode(p, h) == hashRoomPasscode(p) = h

RestMeeting(a, p, maxP) ==
  [passcodeHash |-> hashRoomPasscode(p), creator |-> a,
   expiresAt |-> now + RestDuration,
   maxParticipants |-> IF maxP = 0 THEN DefaultMaxParticipants ELSE maxP,
   participants |-> {a}, status |-> "waiting"]

\* POST /api/meeting/create
restCreate(a, p, maxP) ==
  /\ alive
  /\ nextRest <= MaxRest
  /\ restMeetings' = Put(restMeetings, nextRest, RestMeeting(a, p, maxP))
  /\ nextRest' = nextRest + 1
  /\ res' = Res("restCreate", nextRest, a, "ok", p)

RestIsFull(meeting) ==
  Cardinality(meeting.participants) >= meeting.maxParticipants

\* POST /api/meeting/join
\* the checks of the join route, in the order the code makes them
restJoinOutcome(r, p) ==
  IF r \notin DOMAIN restMeetings THEN "Meeting not found"
  ELSE IF restMeetings[r].expiresAt <= now THEN "Meeting expired"
  ELSE IF ~verifyRoomPasscode(p, restMeetings[r].passcodeHash)
  THEN "Invalid passcode"
  ELSE IF RestIsFull(restMeetings[r]) THEN "Meeting full"
  ELSE "ok"

restJoin(r, p, a) ==
  LET out == restJoinOutcome(r, p) IN
  /\ alive
  /\ UNCHANGED nextRest
  /\ IF out = "Meeting expired"
     THEN /\ restMeetings' = Del(restMeetings, r)
          /\ res' = Res("restJoin", r, a, out, p)
     ELSE IF out # "ok"
     THEN /\ res' = Res("restJoin", r, a, out, p)
          /\ UNCHANGED restMeetings
     ELSE /\ restMeetings' = [restMeetings EXCEPT ![r].participants = @ \cup {a}]
          /\ res' = Res("restJoin", r, a, "ok",
                        Cardinality(restMeetings[r].participants \cup {a}))

\* POST /api/meeting/leave
restLeave(r, a) ==
  /\ alive
  /\ UNCHANGED nextRest
  /\ res' = Res("restLeave", r, a, "ok", 0)
  /\ IF r \in DOMAIN restMeetings
     THEN IF restMeetings[r].participants \ {a} = {}
          THEN restMeetings' = Del(restMeetings, r)
          ELSE restMeetings' = [restMeetings EXCEPT ![r].participants = @ \ {a}]
     ELSE UNCHANGED restMeetings

\* GET /api/meeting/:roomId
restGet(r) ==
  /\ alive
  /\ UNCHANGED nextRest
  /\ IF r \notin DOMAIN restMeetings
     THEN /\ res' = Res("restGet", r, 0, "Meeting not found", 0)
          /\ UNCHANGED restMeetings
     ELSE IF restMeetings[r].expiresAt <= now
     THEN /\ restMeetings' = Del(restMeetings, r)
          /\ res' = Res("restGet", r, 0, "Meeting expired", 0)
     ELSE /\ res' = Res("restGet", r, 0, "ok",
                        [expiry |-> restMeetings[r].expiresAt,
                         status |-> restMeetings[r].status])
          /\ UNCHANGED restMeetings

\* POST /api/meeting/:roomId/status
restStatus(r, st, a) ==
  /\ alive
  /\ UNCHANGED nextRest
  /\ IF r \notin DOMAIN restMeetings
     THEN /\ res' = Res("restStatus", r, a, "Meeting not found", 0)
          /\ UNCHANGED restMeetings
     ELSE IF restMeetings[r].creator # a
     THEN /\ res' = Res("restStatus", r, a, "Permission denied", 0)
          /\ UNCHANGED restMeetings
     ELSE /\ restMeetings' = [restMeetings EXCEPT ![r].status = st]
          /\ res' = Res("restStatus", r, a, "ok", st)

\* the 5-minute interval timer of the routes module
restSweep ==
  /\ alive
  /\ restMeetings' = [r \in {x \in DOMAIN restMeetings : ~(restMeetings[x].expiresAt <= now)}
                        |-> restMeetings[r]]
  /\ res' = res
  /\ UNCHANGED nextRest

(* ----------------------- ChatService over Redis ----------------------- *)
\* JavaScript values of room.participants: a Set, an Array, or a plain object
JsSet(S) == [t |-> "set", v |-> <<>>, s |-> S]
JsArray(q) == [t |-> "arr", v |-> q, s |-> {}]
JsObject == [t |-> "obj", v |-> <<>>, s |-> {}]

\* JSON.stringify followed by JSON.parse: an Array comes back as it was; a
\* Set has no enumerable properties and comes back as the empty object {}
JSONroundTrip(x) == IF x.t = "arr" THEN x ELSE JsObject
stringifyRoom(room) == [room EXCEPT !.participants = JSONroundTrip(@)]

\* the identities a stored participants value lists
Members(x) == IF x.t = "arr" THEN SeqSet(x.v) ELSE x.s

NullJson ==
  [found |-> FALSE, passcode |-> "", creator |-> 0, expires |-> 0,
   participants |-> JsObject, maxParticipants |-> 0]

\* GET: the value under the key, null once the key's TTL is over
RedisGet(k) ==
  IF k \in DOMAIN rstore /\ now < rstore[k].ttlEnd THEN rstore[k].json ELSE NullJson

Tasks == 1..MaxTasks
RKeysRedis == 1..MaxRooms
IdleTask == [op |-> "none", pc |-> "idle", key |-> 0, p |-> "", a |-> 0,
             json |-> NullJson]

\* createBurnerRoom of the Redis variant: SET key JSON EX 24h.  room.expires
\* is taken from Date.now() before the command is sent; the key's TTL starts
\* when Redis executes it, lag ticks later.
redisCreateBurnerRoom(a, p, lag) ==
  LET room == [found |-> TRUE, passcode |-> p, creator |-> a,
               expires |-> now + RoomTTL, participants |-> JsSet({a}),
               maxParticipants |-> TextMaxParticipants] IN
  /\ alive
  /\ nextRRoom <= MaxRooms
  /\ rstore' = Put(rstore, nextRRoom,
                   [json |-> stringifyRoom(room), ttlEnd |-> now + lag + RoomTTL])
  /\ nextRRoom' = nextRRoom + 1
  /\ res' = Res("redisCreateBurnerRoom", nextRRoom, a, "ok", p)
  /\ UNCHANGED <<rtasks, rlast>>

\* joinBurnerRoom and leaveBurnerRoom up to their first await: GET is sent
\* and the call is suspended until the reply is there
redisCall(t, op, k, p, a) ==
  /\ alive
  /\ rtasks[t].pc = "idle"
  /\ rtasks' = [rtasks EXCEPT ![t] =
       [op |-> op, pc |-> "got", key |-> k, p |-> p, a |-> a, json |-> RedisGet(k)]]
  /\ res' = res
  /\ UNCHANGED <<rstore, rlast, nextRRoom>>

\* room.participants.length >= room.maxParticipants: length is undefined on
\* an object, and undefined >= n is false
RedisRoomIsFull(room) ==
  room.participants.t = "arr" /\ Len(room.participants.v) >= room.maxParticipants

\* the outcome of joinBurnerRoom after the GET reply, in the order of the code
redisJoinOutcome(room, p) ==
  IF ~room.found THEN "Room not found"
  ELSE IF room.expires <= now THEN "Room expired"
  ELSE IF room.passcode # p THEN "Invalid passcode"
  ELSE IF RedisRoomIsFull(room) THEN "Room is full"
  ELSE IF room.participants.t # "arr" THEN "TypeError"
  ELSE "ok"

\* joinBurnerRoom resumes with the GET reply
redisJoinResume(t) ==
  LET tk == rtasks[t]
      out == redisJoinOutcome(tk.json, tk.p)
      joined == IF tk.a \in SeqSet(tk.json.participants.v)
                THEN tk.json.participants.v
                ELSE Append(tk.json.participants.v, tk.a)
  IN
  /\ alive
  /\ tk.op = "join" /\ tk.pc = "got"
  /\ UNCHANGED nextRRoom
  /\ IF out = "Room expired"
     THEN \* DEL is sent; the error is thrown when its reply is there
          /\ rstore' = Del(rstore, tk.key)
          /\ rtasks' = [rtasks EXCEPT ![t].pc = "del"]
          /\ res' = res
          /\ UNCHANGED rlast
     ELSE IF out = "ok"
     THEN \* SET key JSON KEEPTTL is sent; a key that is gone comes back
          \* without a TTL
          /\ rstore' = Put(rstore, tk.key,
               [json |-> stringifyRoom([tk.json EXCEPT !.participants = JsArray(joined)]),
                ttlEnd |-> IF tk.key \in DOMAIN rstore /\ now < rstore[tk.key].ttlEnd
                           THEN rstore[tk.key].ttlEnd ELSE MaxTime + 1])
          /\ rtasks' = [rtasks EXCEPT ![t].pc = "set", ![t].json.participants = JsArray(joined)]
          /\ res' = res
          /\ UNCHANGED rlast
     ELSE /\ rtasks' = [rtasks EXCEPT ![t] = IdleTask]
          /\ res' = Res("redisJoin", tk.key, tk.a, out, [read |-> tk.json, passcode |-> tk.p])
          /\ UNCHANGED <<rstore, rlast>>

\* joinBurnerRoom resumes with the reply of DEL or SET and completes
redisJoinFinish(t) ==
  LET tk == rtasks[t] IN
  /\ alive
  /\ tk.op = "join" /\ tk.pc \in {"del", "set"}
  /\ rtasks' = [rtasks EXCEPT ![t] = IdleTask]
  /\ res' = Res("redisJoin", tk.key, tk.a,
                IF tk.pc = "del" THEN "Room expired" ELSE "ok",
                [read |-> tk.json, passcode |-> tk.p])
  /\ rlast' = IF tk.pc = "set" THEN [rlast EXCEPT ![tk.a] = "join"] ELSE rlast
  /\ UNCHANGED <<rstore, nextRRoom>>

\* leaveBurnerRoom resumes with the GET reply: room.participants.filter is
\* not a function on an object
redisLeaveResume(t) ==
  LET tk == rtasks[t]
      left == SelectSeq(tk.json.participants.v, LAMBDA x : x # tk.a)
  IN
  /\ alive
  /\ tk.op = "leave" /\ tk.pc = "got"
  /\ UNCHANGED nextRRoom
  /\ rtasks' = [rtasks EXCEPT ![t] = IdleTask]
  /\ IF ~tk.json.found
     THEN /\ res' = Res("redisLeave", tk.key, tk.a, "ok", 0)
          /\ rlast' = [rlast EXCEPT ![tk.a] = "leave"]
          /\ UNCHANGED rstore
     ELSE IF tk.json.participants.t # "arr"
     THEN /\ res' = Res("redisLeave", tk.key, tk.a, "TypeError", 0)
          /\ UNCHANGED <<rstore, rlast>>
     ELSE /\ res' = Res("redisLeave", tk.key, tk.a, "ok", 0)
          /\ rlast' = [rlast EXCEPT ![tk.a] = "leave"]
          /\ rstore' =
               IF left = <<>> THEN Del(rstore, tk.key)
               ELSE Put(rstore, tk.key,
                      [json |-> stringifyRoom([tk.json EXCEPT !.participants = JsArray(left)]),
                       ttlEnd |-> IF tk.key \in DOMAIN rstore /\ now < rstore[tk.key].ttlEnd
                                  THEN rstore[tk.key].ttlEnd ELSE MaxTime + 1])

\* Redis removes a key whose TTL is over
redisExpire(k) ==
  /\ k \in DOMAIN rstore
  /\ now >= rstore[k].ttlEnd
  /\ rstore' = Del(rstore, k)
  /\ res' = res
  /\ UNCHANGED <<rtasks, rlast, nextRRoom>>

(* -------------------- socket handlers of server.js --------------------- *)
\* what a client can put in data.targetSocketId / data.target: 0 is absent
Targets == {0} \cup Sockets
RelayKinds == {"offer", "answer", "ice_candidate"}

Open(s) == sockets[s].st = "open"

\* io.on('connection') followed by a successful 'authenticate'
connection(s) ==
  /\ alive
  /\ sockets[s].st = "new"
  /\ sockets' = [sockets EXCEPT ![s].st = "open"]
  /\ res' = Res("connection", 0, s, "ok", 0)

join_video_room(s, r) ==
  /\ Open(s)
  /\ joinRoom(s, AnonOf(s), r)
  /\ sockets' = IF joinRoomOutcome(r) = "ok"
                THEN [sockets EXCEPT ![s].currentVideoRoom = r]
                ELSE sockets

leave_video_room(s) ==
  /\ Open(s)
  /\ leaveRoom(s)
  /\ sockets' = IF s \in DOMAIN vparts /\ sockets[s].currentVideoRoom # 0
                THEN [sockets EXCEPT ![s].currentVideoRoom = 0]
                ELSE sockets

\* getOtherParticipant(socketId, room): the values participants.find can
\* return; 0 is null
getOtherParticipant(s, room) ==
  IF room.participants \ {s} = {} THEN {0} ELSE room.participants \ {s}

\* handleOffer / handleAnswer / handleIceCandidate: the error, or "ok"
handleRelayOutcome(s) ==
  IF s \notin DOMAIN vparts THEN "Participant not found"
  ELSE IF vparts[s].roomId \notin DOMAIN vrooms THEN "Room not found"
  ELSE "ok"

\* the offers, answers and candidates a client sends
Payloads == 1..NumPayloads
\* the payload of the envelopes the relay runs send
RelayPayload == 1

\* room.iceCandidate.get(socketId), the empty array when absent
IceOf(room, s) ==
  IF s \in DOMAIN room.iceCandidate THEN room.iceCandidate[s] ELSE <<>>

\* a store that puts a new candidate in front of the earlier ones
handleRelayStoreFront(kind, s, payload) ==
  LET r == vparts[s].roomId IN
  IF kind = "offer" THEN [vrooms EXCEPT ![r].offers = Put(@, s, payload)]
  ELSE IF kind = "answer" THEN [vrooms EXCEPT ![r].answers = Put(@, s, payload)]
  ELSE [vrooms EXCEPT ![r].iceCandidate =
          Put(@, s, <<payload>> \o IceOf(vrooms[r], s))]

\* the store of the room after the payload of s was put under its socket
\* id: offers.set, answers.set, iceCandidate.get(socketId).push
handleRelayStore(kind, s, payload) ==
  LET r == vparts[s].roomId IN
  IF kind = "offer" THEN [vrooms EXCEPT ![r].offers = Put(@, s, payload)]
  ELSE IF kind = "answer" THEN [vrooms EXCEPT ![r].answers = Put(@, s, payload)]
  ELSE [vrooms EXCEPT ![r].iceCandidate =
          Put(@, s, Append(IceOf(vrooms[r], s), payload))]

\* the runs send at most MaxIce candidates per connection and room
IceRoom(kind, s) ==
  kind = "ice_candidate" => Len(IceOf(vrooms[vparts[s].roomId], s)) < MaxIce

\* WebRTCService.handleOffer / handleAnswer / handleIceCandidate
handleSignal(kind, s, payload) ==
  LET out == handleRelayOutcome(s) IN
  /\ alive
  /\ UNCHANGED <<vparts, nextVRoom>>
  /\ IF out # "ok"
     THEN /\ UNCHANGED vrooms
          /\ res' = Res(kind, 0, s, out, 0)
     ELSE /\ IceRoom(kind, s)
          /\ vrooms' = handleRelayStore(kind, s, payload)
          /\ res' = Res(kind, vparts[s].roomId, s, "ok", payload)

\* a socket is connected from the start ("new": not authenticated, "open":
\* authenticated) until its disconnect
Connected(s) == sockets[s].st # "closed"

\* socket.to(x).emit(...): the connected sockets in the room named x, the
\* sender left out; every socket is in the room named by its own id, and
\* the room ids of the services are no socket ids
EmitTo(s, x) == {t \in Sockets \ {s} : t = x /\ Connected(t)}

\* socket.on('webrtc_offer' / 'webrtc_answer' / 'webrtc_ice_candidate'):
\* res.data is the set of sockets the envelope was delivered to
webrtc_relay(kind, s, targetSocketId, target) ==
  LET out == handleRelayOutcome(s) IN
  /\ alive
  /\ Connected(s)
  /\ UNCHANGED <<vparts, nextVRoom, sockets>>
  /\ IF out # "ok"
     THEN /\ UNCHANGED vrooms
          /\ res' = Res(kind, 0, s, out, EmitTo(s, target))
     ELSE /\ IceRoom(kind, s)
          /\ vrooms' = handleRelayStore(kind, s, RelayPayload)
          /\ \E t \in IF targetSocketId # 0 THEN {targetSocketId}
                       ELSE getOtherParticipant(s, vrooms[vparts[s].roomId]) :
               res' = Res(kind, vparts[s].roomId, s, "ok",
                          IF t # 0 THEN EmitTo(s, t) ELSE EmitTo(s, target))

\* socket.to(room).emit(...): the connected sockets that joined the
\* socket.io room of that name, the sender left out
InRoom(s, k) == {t \in Sockets \ {s} : Connected(t) /\ k \in sockets[t].joined}

\* socket.broadcast.emit(...): every connected socket but the sender
Others(s) == {t \in Sockets \ {s} : Connected(t)}

\* socket.on('join_room'): res.data is the set of sockets told user_joined
join_room(s, k) ==
  /\ alive
  /\ Connected(s)
  /\ UNCHANGED chatVars
  /\ IF ~Open(s)
     THEN /\ res' = Res("join_room", k, s, "Not authenticated", {})
          /\ UNCHANGED sockets
     ELSE /\ sockets' = [sockets EXCEPT ![s].joined = @ \cup {k}]
          /\ res' = Res("join_room", k, s, "room_joined", InRoom(s, k))

\* socket.on('leave_room')
leave_room(s, k) ==
  /\ alive
  /\ Connected(s)
  /\ UNCHANGED chatVars
  /\ sockets' = [sockets EXCEPT ![s].joined = @ \ {k}]
  /\ res' = Res("leave_room", k, s, "room_left", InRoom(s, k))

\* socket.on('anon_msg'): k is data.room, 0 when absent; res.data is the set
\* of sockets the 'msg' event was delivered to
anon_msg(s, k, textOk, cap) ==
  /\ Connected(s)
  /\ UNCHANGED sockets
  /\ IF ~Open(s)
     THEN /\ alive
          /\ res' = Res("anon_msg", k, s, "Not authenticated", {})
          /\ UNCHANGED chatVars
     ELSE /\ processMessageStore(k, AnonOf(s), textOk, cap)
          /\ res' = IF processMessageResult(k, AnonOf(s), textOk).out = "ok"
                    THEN Res("anon_msg", k, s, "msg_sent",
                             IF k # GlobalKey THEN InRoom(s, k) ELSE Others(s))
                    ELSE Res("anon_msg", k, s, "Message processing failed", {})

join_meeting(s, m, p) ==
  /\ Open(s)
  /\ joinMeeting(s, AnonOf(s), m, p)
  /\ sockets' = IF joinMeetingOutcome(m, p) = "ok"
                THEN [sockets EXCEPT ![s].currentMeeting = m]
                ELSE sockets

\* returns at once when socket.currentMeeting is not set
leave_meeting(s) ==
  /\ Open(s)
  /\ sockets[s].currentMeeting # 0
  /\ leaveMeeting(s)
  /\ sockets' = IF s \in DOMAIN mparts
                THEN [sockets EXCEPT ![s].currentMeeting = 0]
                ELSE sockets

\* on success every participant socket still connected gets currentMeeting = null
end_meeting(s) ==
  /\ Open(s)
  /\ IF sockets[s].currentMeeting = 0
     THEN /\ alive
          /\ res' = Res("end_meeting", 0, s, "Not in a meeting or not authenticated", 0)
          /\ UNCHANGED <<meetingVars, sockets>>
     ELSE LET m == sockets[s].currentMeeting IN
          /\ endMeeting(s, m)
          /\ sockets' = IF s \in DOMAIN mparts /\ m \in DOMAIN meetings
                           /\ mparts[s].role = "host"
                        THEN [t \in Sockets |->
                               IF t \in meetings[m].participants /\ Open(t)
                               THEN [sockets[t] EXCEPT !.currentMeeting = 0]
                               ELSE sockets[t]]
                        ELSE sockets

\* WebRTCService.leaveRoom(socket.id) as the disconnect handler uses it
vroomsAfterLeave(s) ==
  IF s \notin DOMAIN vparts \/ vparts[s].roomId \notin DOMAIN vrooms THEN vrooms
  ELSE LET r == vparts[s].roomId IN
       IF vrooms[r].participants \ {s} = {} THEN Del(vrooms, r)
       ELSE [vrooms EXCEPT ![r].participants = @ \ {s},
                           ![r].offers = Del(@, s),
                           ![r].answers = Del(@, s),
                           ![r].iceCandidate = Del(@, s)]

\* MeetingService.leaveMeeting(socket.id) as the disconnect handler uses it
meetingsAfterLeave(s) ==
  IF s \notin DOMAIN mparts \/ mparts[s].meetingId \notin DOMAIN meetings THEN meetings
  ELSE LET m == mparts[s].meetingId
           left == meetings[m].participants \ {s} IN
       [meetings EXCEPT ![m].participants = left,
                        ![m].isActive = IF left = {} THEN FALSE ELSE @]

mtimersAfterLeave(s) ==
  IF s \notin DOMAIN mparts \/ mparts[s].meetingId \notin DOMAIN meetings THEN mtimers
  ELSE LET m == mparts[s].meetingId IN
       IF meetings[m].participants \ {s} = {} /\ meetings[m].autoDelete
       THEN mtimers \cup {[id |-> m, due |-> now + DeleteDelay]}
       ELSE mtimers

\* socket.on('disconnect'): one leaveRoom if currentVideoRoom is set, one
\* leaveMeeting if currentMeeting is set; the socket id is never used again
disconnect(s) ==
  /\ alive
  /\ Open(s)
  /\ sockets' = [sockets EXCEPT ![s].st = "closed"]
  /\ res' = Res("disconnect", 0, s, "ok", 0)
  /\ IF sockets[s].currentVideoRoom # 0
     THEN /\ vrooms' = vroomsAfterLeave(s)
          /\ vparts' = Del(vparts, s)
     ELSE UNCHANGED <<vrooms, vparts>>
  /\ IF sockets[s].currentMeeting # 0
     THEN /\ meetings' = meetingsAfterLeave(s)
          /\ mtimers' = mtimersAfterLeave(s)
          /\ mparts' = Del(mparts, s)
     ELSE UNCHANGED <<meetings, mparts, mtimers>>
  /\ UNCHANGED <<nextVRoom, nextMeeting>>

(* ---------------------------- AuthService ------------------------------ *)
JWT_SECRET == "JWT_SECRET"
\* Math.floor(Date.now() / 1000)
Seconds(t) == t \div TicksPerSecond

\* a value a client can present as tempToken: a signed JWT, or something
\* that is no JWT at all
Jwt(a, iat, exp, secret) ==
  [kind |-> "jwt", anonId |-> a, iat |-> iat, exp |-> exp, secret |-> secret]
Malformed == [kind |-> "malformed", anonId |-> 0, iat |-> 0, exp |-> 0, secret |-> ""]
NullToken == [kind |-> "null", anonId |-> 0, iat |-> 0, exp |-> 0, secret |-> ""]
\* a well-formed token with a far expiry, signed with another secret
Forged == Jwt(1, 0, MaxAuthTime, "other")
Presentable == issued \cup {Malformed, Forged}

generateTempToken(a) ==
  Jwt(a, Seconds(now), Seconds(now) + TokenLifetime, JWT_SECRET)

\* a verification that accepts a token in the second its exp names
jwtVerifyInclusive(tok) ==
  IF tok.kind # "jwt" THEN "JsonWebTokenError"
  ELSE IF tok.secret # JWT_SECRET THEN "JsonWebTokenError"
  ELSE IF Seconds(now) > tok.exp THEN "TokenExpiredError"
  ELSE "ok"

\* jwt.verify(token, JWT_SECRET): "ok", or the error it throws
jwtVerify(tok) ==
  IF tok.kind # "jwt" THEN "JsonWebTokenError"
  ELSE IF tok.secret # JWT_SECRET THEN "JsonWebTokenError"
  ELSE IF Seconds(now) >= tok.exp THEN "TokenExpiredError"
  ELSE "ok"

\* a verifyTempToken without the try / catch
verifyTempTokenNoCatch(tok) ==
  IF jwtVerify(tok) = "ok" THEN [thrown |-> FALSE, value |-> tok]
  ELSE [thrown |-> TRUE, value |-> NullToken]

\* verifyTempToken(token): the decoded payload, or null from the catch
verifyTempToken(tok) ==
  IF jwtVerify(tok) = "ok" THEN [thrown |-> FALSE, value |-> tok]
  ELSE [thrown |-> FALSE, value |-> NullToken]

\* POST /api/auth/generate-anon-id, past its rate limiter; generateAnonId
\* draws the identity at random
generateAnonIdRoute(a) ==
  /\ alive
  /\ Cardinality(issued \cup {generateTempToken(a)}) <= MaxTokens
  /\ issued' = issued \cup {generateTempToken(a)}
  /\ res' = Res("generate-anon-id", 0, a, "ok", generateTempToken(a))
  /\ UNCHANGED sockets

\* POST /api/auth/verify-token
verifyTokenRoute(tok) ==
  LET decoded == verifyTempToken(tok) IN
  /\ alive
  /\ UNCHANGED <<issued, sockets>>
  /\ IF decoded.thrown
     THEN res' = Res("verify-token", 0, 0, "Token verification failed", tok)
     ELSE IF decoded.value # NullToken
     THEN res' = Res("verify-token", 0, decoded.value.anonId, "ok",
                     [token |-> tok,
                      expiresAt |-> decoded.value.exp * TicksPerSecond,
                      timeRemaining |-> decoded.value.exp * TicksPerSecond - now])
     ELSE res' = Res("verify-token", 0, 0, "Invalid or expired token", tok)

\* the refresh test with <= in place of <
NearExpiryInclusive(tok) == tok.exp * TicksPerSecond - now <= RefreshThreshold

\* timeUntilExpiry < 10 * 60 * 1000
NearExpiry(tok) == tok.exp * TicksPerSecond - now < RefreshThreshold

\* POST /api/auth/refresh-token
refreshTokenRoute(tok) ==
  LET decoded == verifyTempToken(tok) IN
  /\ alive
  /\ UNCHANGED sockets
  /\ IF decoded.thrown
     THEN /\ res' = Res("refresh-token", 0, 0, "Token refresh failed", tok)
          /\ UNCHANGED issued
     ELSE IF decoded.value = NullToken
     THEN /\ res' = Res("refresh-token", 0, 0, "Invalid or expired token", tok)
          /\ UNCHANGED issued
     ELSE IF NearExpiry(decoded.value)
     THEN /\ Cardinality(issued \cup {generateTempToken(decoded.value.anonId)})
               <= MaxTokens + 1
          /\ issued' = issued \cup {generateTempToken(decoded.value.anonId)}
          /\ res' = Res("refresh-token", 0, decoded.value.anonId, "refreshed",
                        [token |-> tok,
                         tempToken |-> generateTempToken(decoded.value.anonId)])
     ELSE /\ res' = Res("refresh-token", 0, decoded.value.anonId, "no refresh needed",
                        [token |-> tok,
                         timeRemaining |-> decoded.value.exp * TicksPerSecond - now])
          /\ UNCHANGED issued

\* socket.on('auth'): a socket in state "new" is connected and not yet
\* authenticated, "open" is authenticated
auth(s, tok) ==
  LET decoded == verifyTempToken(tok) IN
  /\ alive
  /\ sockets[s].st # "closed"
  /\ UNCHANGED issued
  /\ IF decoded.thrown
     THEN /\ res' = Res("auth", 0, s, "auth_error: Authentication failed", tok)
          /\ UNCHANGED sockets
     ELSE IF decoded.value # NullToken
     THEN /\ sockets' = [sockets EXCEPT ![s].st = "open"]
          /\ res' = Res("auth", 0, s, "auth_success", tok)
     ELSE /\ res' = Res("auth", 0, s, "auth_error: Invalid token", tok)
          /\ UNCHANGED sockets

\* the clock of the token runs: Date.now() advances
TickAuth ==
  /\ now < MaxAuthTime
  /\ now' = now + 1
  /\ res' = NoRes
  /\ UNCHANGED <<alive, chatVars, videoVars, meetingVars, restVars, redisVars,
                 sockets, authVars, rateVars, svc>>

(* --------------------------- rate limiting ----------------------------- *)
\* limiter.consume(req): RateLimiterMemory takes its first argument as the
\* key and builds the storage key with a template string; the keyGenerator
\* option is not one it knows.  The request object turns into the same
\* string for every request.
ConsumeKey(fp) == <<"[object Object]", 0>>

Min(a, b) == IF a <= b THEN a ELSE b

\* MemoryStorage.incrby followed by the block of RateLimiterMemory.consume,
\* on the bucket map B: the record the key holds afterwards
Consume(B, c, k) ==
  LET live == <<c, k>> \in DOMAIN B /\ B[<<c, k>>].expiresAt > now
      inc == IF live THEN [B[<<c, k>>] EXCEPT !.value = @ + 1]
             ELSE [value |-> 1, expiresAt |-> now + Duration[c]]
  IN IF inc.value > points[c] /\ BlockDuration[c] > 0 /\ inc.value <= points[c] + 1
     THEN [value |-> inc.value, expiresAt |-> now + BlockDuration[c]]
     ELSE inc

\* the middleware createRateLimiter(c) returns, run for one request on the
\* bucket map B: whether next() is called, retryAfter, and the map afterwards
Gate(B, c, fp) ==
  LET rec == Consume(B, c, ConsumeKey(fp)) IN
  [ok |-> ~(rec.value > points[c]),
   type |-> c,
   retryAfter |-> Max(rec.expiresAt - now, 1),
   buckets |-> Put(B, <<c, ConsumeKey(fp)>>, rec)]

\* app.use(defaultRateLimiter) followed by the limiter of the route
Gates(c, fp) ==
  LET g1 == Gate(buckets, "api", fp) IN
  IF ~g1.ok \/ c = "none" THEN g1 ELSE Gate(g1.buckets, c, fp)

Denied(op, fp, g) ==
  Res(op, 0, fp, "429", [type |-> g.type, retryAfter |-> g.retryAfter])

\* the largest value a bucket holds
Hits(B) == IF DOMAIN B = {} THEN 0
           ELSE CHOOSE v \in {B[x].value : x \in DOMAIN B} :
                  \A y \in DOMAIN B : B[y].value <= v

\* POST /api/auth/generate-anon-id behind the api and the anonId limiter
httpGenerateAnonId(fp, a) ==
  LET g == Gates("anonId", fp) IN
  /\ alive
  /\ buckets' = g.buckets
  /\ UNCHANGED <<points, currentMultiplier, lastCheck, requests>>
  /\ IF g.ok
     THEN /\ issued' = issued \cup {generateTempToken(a)}
          /\ res' = Res("generate-anon-id", 0, fp, "ok", generateTempToken(a))
     ELSE /\ res' = Denied("generate-anon-id", fp, g)
          /\ UNCHANGED issued

\* POST /api/generate-anon-id of server.js, behind the api limiter only
serverGenerateAnonId(fp, a) ==
  LET g == Gates("none", fp) IN
  /\ alive
  /\ buckets' = g.buckets
  /\ UNCHANGED <<points, currentMultiplier, lastCheck, requests>>
  /\ IF g.ok
     THEN /\ issued' = issued \cup {generateTempToken(a)}
          /\ res' = Res("server generate-anon-id", 0, fp, "ok", generateTempToken(a))
     ELSE /\ res' = Denied("server generate-anon-id", fp, g)
          /\ UNCHANGED issued

\* a create-room route whose handler runs whatever the limiter answered
httpCreateRoomUngated(fp, a) ==
  LET g == Gates("roomCreation", fp) IN
  /\ buckets' = g.buckets
  /\ UNCHANGED <<points, currentMultiplier, lastCheck, requests>>
  /\ IF a = 0
     THEN /\ alive
          /\ res' = Res("create-room", 0, fp, "Anonymous ID required", 0)
          /\ UNCHANGED chatVars
     ELSE createBurnerRoom(a, RoomPasscode)

\* POST /api/chat/create-room behind the api and the roomCreation limiter;
\* a = 0 is a body without anonId (answer 400)
httpCreateRoom(fp, a) ==
  LET g == Gates("roomCreation", fp) IN
  /\ buckets' = g.buckets
  /\ UNCHANGED <<points, currentMultiplier, lastCheck, requests>>
  /\ IF ~g.ok
     THEN /\ alive
          /\ res' = Denied("create-room", fp, g)
          /\ UNCHANGED chatVars
     ELSE IF a = 0
     THEN /\ alive
          /\ res' = Res("create-room", 0, fp, "Anonymous ID required", 0)
          /\ UNCHANGED chatVars
     ELSE createBurnerRoom(a, RoomPasscode)

\* POST /api/chat/join-room behind the api limiter, app-wide and per route
httpJoinRoom(fp, k, p, a) ==
  LET g == Gates("api", fp) IN
  /\ buckets' = g.buckets
  /\ UNCHANGED <<points, currentMultiplier, lastCheck, requests>>
  /\ IF ~g.ok
     THEN /\ alive
          /\ res' = Denied("join-room", fp, g)
          /\ UNCHANGED chatVars
     ELSE joinBurnerRoom(k, p, a)

\* an adjustment that scales each class's own static points
ScaledOwn(c, mult) == (StaticPoints[c] * mult) \div 10

\* Math.floor(this.basePoints * this.currentMultiplier), for every class
ScaledPoints(c, mult) == (BasePoints * mult) \div 10

\* an adjustment without the clamps
StepFree(mult, load) ==
  IF load = "high" THEN mult - 1
  ELSE IF load = "low" THEN mult + 1
  ELSE mult

\* the new multiplier after one sample: heap use > 0.8, < 0.5, or between
Step(mult, load) ==
  IF load = "high" THEN Max(MinMultiplier, mult - 1)
  ELSE IF load = "low" THEN Min(MaxMultiplier, mult + 1)
  ELSE mult

\* the setInterval callback of AdaptiveRateLimiter
adjustLimits(load) ==
  /\ alive
  /\ now - lastCheck >= AdjustPeriod
  /\ currentMultiplier' = Step(currentMultiplier, load)
  /\ lastCheck' = now
  /\ points' = [c \in RateClasses |->
                  IF points[c] # 0
                  THEN ScaledPoints(c, Step(currentMultiplier, load))
                  ELSE points[c]]
  /\ res' = Res("adjustLimits", 0, 0, load, currentMultiplier)
  /\ UNCHANGED <<buckets, requests>>

\* a limit that already refuses the max-th request
OverLimitInclusive(count) == count >= PrivacyMax

\* requestData.count > max
OverLimit(count) == count > PrivacyMax

\* the middleware privacyAwareRateLimit(windowMs, max) returns
privacyAwareRateLimit(fp) ==
  LET kept == [k \in {x \in DOMAIN requests :
                        ~(now - requests[x].resetTime > PrivacyWindow)}
                 |-> requests[k]]
      data == IF fp \in DOMAIN kept THEN kept[fp]
              ELSE [count |-> 0, resetTime |-> now]
      fresh == IF now - data.resetTime > PrivacyWindow
               THEN [count |-> 0, resetTime |-> now] ELSE data
      counted == [fresh EXCEPT !.count = @ + 1]
  IN /\ alive
     /\ requests' = Put(kept, fp, counted)
     /\ res' = Res("privacyAwareRateLimit", 0, fp,
                   IF OverLimit(counted.count) THEN "429" ELSE "next",
                   counted)
     /\ UNCHANGED <<buckets, points, currentMultiplier, lastCheck>>

\* time passes between the samples of the adaptive limiter
TickAdaptive ==
  /\ now < MaxAdjustTime
  /\ now' = now + 1
  /\ res' = NoRes
  /\ UNCHANGED <<alive, chatVars, videoVars, meetingVars, restVars, redisVars,
                 sockets, authVars, rateVars, svc>>

TickRate ==
  /\ now < MaxRateTime
  /\ now' = now + 1
  /\ res' = NoRes
  /\ UNCHANGED <<alive, chatVars, videoVars, meetingVars, restVars, redisVars,
                 sockets, authVars, rateVars, svc>>

(* ------------------------------- time ---------------------------------- *)
Tick ==
  /\ now < MaxTime
  /\ now' = now + 1
  /\ res' = NoRes
  /\ UNCHANGED <<alive, chatVars, videoVars, meetingVars, restVars, redisVars, sockets, authVars, rateVars, svc>>

(* --------------------------- specifications ---------------------------- *)
Init ==
  /\ now = 0
  /\ alive = TRUE
  /\ res = NoRes
  /\ messages = EmptyMap
  /\ rooms = EmptyMap
  /\ roomOrder = <<>>
  /\ nextMsg = 1
  /\ nextRoom = 1
  /\ vrooms = EmptyMap
  /\ vparts = EmptyMap
  /\ nextVRoom = 1
  /\ meetings = EmptyMap
  /\ mparts = EmptyMap
  /\ mtimers = {}
  /\ nextMeeting = 1
  /\ restMeetings = EmptyMap
  /\ nextRest = 1
  /\ rstore = EmptyMap
  /\ rtasks = [t \in Tasks |-> IdleTask]
  /\ rlast = [a \in Anon |-> "none"]
  /\ nextRRoom = 1
  /\ sockets = [s \in Sockets |-> NewSocket]
  /\ issued = {}
  /\ buckets = EmptyMap
  /\ points = StaticPoints
  /\ currentMultiplier = InitialMultiplier
  /\ lastCheck = 0
  /\ requests = EmptyMap
  /\ svc \in {"chat", "video", "meeting", "rest", "redis", "auth", "rate",
             "create-room", "join-room", "privacy"}

\* create / join / leave on the text-room store, with enough identities to
\* fill a room of 10.  Rooms do not interact, so one text room is driven.
CapChat ==
  /\ svc = "chat"
  /\ \/ \E a \in CapCreators :
          nextRoom \in CapKeys /\ createBurnerRoom(a, RoomPasscode)
     \/ \E k \in CapKeys, p \in Passcodes, a \in AnonCap : joinBurnerRoom(k, p, a)
     \/ \E k \in CapKeys, a \in AnonCap : leaveBurnerRoom(k, a)
  /\ UNCHANGED <<now, alive, videoVars, meetingVars, restVars, redisVars, sockets, authVars, rateVars, svc>>

CapVideo ==
  /\ svc = "video"
  /\ \/ \E a \in CapCreators : createRoom(a)
     \/ \E s \in Sockets, r \in VKeys : joinRoom(s, AnonOf(s), r)
     \/ \E s \in Sockets : leaveRoom(s)
  /\ UNCHANGED <<now, alive, chatVars, meetingVars, restVars, redisVars, sockets, authVars, rateVars, svc>>

NextCap == CapChat \/ CapVideo
InitCap == Init /\ svc \in {"chat", "video"}
SpecCap == InitCap /\ [][NextCap]_vars
\* the interval timer of the ChatService constructor fires
ChatSweep ==
  cleanupExpiredMessages /\ UNCHANGED <<now, videoVars, meetingVars, restVars, redisVars, sockets, authVars, rateVars, svc>>

NextChat ==
  \/ /\ \/ \E a \in Anon : createBurnerRoom(a, RoomPasscode)
        \/ \E k \in Keys, p \in Passcodes, a \in Anon : joinBurnerRoom(k, p, a)
        \/ \E k \in Keys, a \in Anon : leaveBurnerRoom(k, a)
        \/ \E k \in KnownKeys, a \in Anon, ok \in BOOLEAN : processMessage(k, a, ok)
        \/ \E k \in Keys, limit \in Limits : getRecentMessages(k, limit)
        \/ \E k \in Keys : getRoomInfo(k)
     /\ UNCHANGED <<now, alive, videoVars, meetingVars, restVars, redisVars, sockets, authVars, rateVars, svc>>
  \/ ChatSweep
  \/ Tick

InitChat == Init /\ svc = "chat"
SpecChat == InitChat /\ [][NextChat]_vars
NextVideo ==
  \/ /\ \/ \E a \in CapCreators : createRoom(a)
        \/ \E s \in Sockets, r \in VKeys : joinRoom(s, AnonOf(s), r)
        \/ \E s \in Sockets : leaveRoom(s)
        \/ cleanupExpiredRooms
     /\ UNCHANGED <<now, alive, chatVars, meetingVars, restVars, redisVars, sockets, authVars, rateVars, svc>>
  \/ Tick

NextMeeting ==
  \/ /\ \/ \E a \in Anon, maxP \in MaxInputs, rp \in BOOLEAN, ad \in BOOLEAN :
             createMeeting(a, RoomPasscode, maxP, rp, ad)
        \/ \E s \in MSockets, m \in MKeys, p \in Passcodes :
             joinMeeting(s, AnonOf(s), m, p)
        \/ \E s \in MSockets : leaveMeeting(s)
        \/ \E m \in MKeys : getMeetingInfo(m)
        \/ \E s \in MSockets, m \in MKeys, v \in MaxInputs \ {0} : updateMeeting(s, m, v)
        \/ \E s \in MSockets, m \in MKeys : endMeeting(s, m)
        \/ \E s \in MSockets : handleMeetingMessage(s)
        \/ \E t \in mtimers : meetingTimer(t)
     /\ UNCHANGED <<now, alive, chatVars, videoVars, restVars, redisVars, sockets, authVars, rateVars, svc>>
  \/ Tick

NextRest ==
  \/ /\ \/ \E a \in Anon, maxP \in MaxInputs : restCreate(a, RoomPasscode, maxP)
        \/ \E r \in RKeys, p \in Passcodes, a \in Anon : restJoin(r, p, a)
        \/ \E r \in RKeys, a \in Anon : restLeave(r, a)
        \/ \E r \in RKeys : restGet(r)
        \/ \E r \in RKeys, st \in Statuses, a \in Anon : restStatus(r, st, a)
        \/ restSweep
     /\ UNCHANGED <<now, alive, chatVars, videoVars, meetingVars, redisVars, sockets, authVars, rateVars, svc>>
  \/ Tick

InitVideo == Init /\ svc = "video"
SpecVideo == InitVideo /\ [][NextVideo]_vars
InitMeeting == Init /\ svc = "meeting"
SpecMeeting == InitMeeting /\ [][NextMeeting]_vars
InitRest == Init /\ svc = "rest"
SpecRest == InitRest /\ [][NextRest]_vars

\* the meeting service with its timers: time passes, and every pending
\* setTimeout callback runs once it is due
MTimers == [id : MKeys, due : 0..(MaxTime + DeleteDelay)]
MeetingTimerStep(t) ==
  meetingTimer(t) /\ UNCHANGED <<now, alive, chatVars, videoVars, restVars, redisVars, sockets, authVars, rateVars, svc>>
SpecMeetingTimers ==
  /\ InitMeeting
  /\ [][NextMeeting]_vars
  /\ WF_vars(Tick)
  /\ \A t \in MTimers : WF_vars(MeetingTimerStep(t))

NextRedis ==
  \/ /\ \/ \E a \in CapCreators, lag \in {0, 1} :
             redisCreateBurnerRoom(a, RoomPasscode, lag)
        \/ \E t \in Tasks, k \in RKeysRedis, p \in Passcodes, a \in Anon :
             redisCall(t, "join", k, p, a)
        \/ \E t \in Tasks, k \in RKeysRedis, a \in Anon :
             redisCall(t, "leave", k, "", a)
        \/ \E t \in Tasks : redisJoinResume(t)
        \/ \E t \in Tasks : redisJoinFinish(t)
        \/ \E t \in Tasks : redisLeaveResume(t)
        \/ \E k \in RKeysRedis : redisExpire(k)
     /\ UNCHANGED <<now, alive, chatVars, videoVars, meetingVars, restVars, sockets, authVars, rateVars, svc>>
  \/ Tick
InitRedis == Init /\ svc = "redis"
SpecRedis == InitRedis /\ [][NextRedis]_vars

\* the two services behind the socket handlers of server.js
NextSocket ==
  \/ svc = "video" /\ NextVideo
  \/ svc = "meeting" /\ NextMeeting
InitSocket == Init /\ svc \in {"video", "meeting"}
SpecSocket == InitSocket /\ [][NextSocket]_vars

\* the text-room store and the video-room store with their timers: time
\* passes, and the interval timer of the chat service keeps firing while the
\* process runs.  The video service registers no timer.
NextTimers ==
  \/ svc = "chat" /\ NextChat
  \/ svc = "video" /\ NextVideo
SpecTimers ==
  /\ InitCap
  /\ [][NextTimers]_vars
  /\ WF_vars(Tick)
  /\ WF_vars(ChatSweep)

\* the three stores whose rooms carry a passcode and an expiry instant
NextExpiring ==
  \/ svc = "chat" /\ NextChat
  \/ svc = "meeting" /\ NextMeeting
  \/ svc = "rest" /\ NextRest
InitExpiring == Init /\ svc \in {"chat", "meeting", "rest"}
SpecExpiring == InitExpiring /\ [][NextExpiring]_vars

\* the socket handlers in front of the video service and the meeting
\* service: connections come and go, rooms are created through the service
NextConnVideo ==
  /\ \/ \E a \in CapCreators : createRoom(a) /\ UNCHANGED sockets
     \/ \E s \in Sockets :
          connection(s) /\ UNCHANGED videoVars
     \/ \E s \in Sockets, r \in VKeys : join_video_room(s, r)
     \/ \E s \in Sockets : leave_video_room(s)
     \/ \E s \in Sockets :
          disconnect(s)
  /\ UNCHANGED <<now, alive, chatVars, restVars, redisVars, authVars, rateVars, svc>>

NextConnMeeting ==
  /\ \/ \E a \in Anon, rp \in BOOLEAN, ad \in BOOLEAN :
          createMeeting(a, RoomPasscode, 0, rp, ad) /\ UNCHANGED sockets
     \/ \E s \in MSockets :
          connection(s) /\ UNCHANGED meetingVars
     \/ \E s \in MSockets, m \in MKeys, p \in Passcodes : join_meeting(s, m, p)
     \/ \E s \in MSockets : leave_meeting(s)
     \/ \E s \in MSockets : end_meeting(s)
     \/ \E s \in MSockets :
          disconnect(s)
     \/ \E t \in mtimers : meetingTimer(t) /\ UNCHANGED sockets
  /\ UNCHANGED <<now, alive, chatVars, restVars, redisVars, authVars, rateVars, svc>>

NextConn ==
  \/ svc = "video" /\ NextConnVideo /\ UNCHANGED meetingVars
  \/ svc = "meeting" /\ NextConnMeeting /\ UNCHANGED videoVars
  \/ svc = "meeting" /\ Tick
SpecConn == InitSocket /\ [][NextConn]_vars

\* the signaling relay: the video handlers with the three relay events.
\* Rooms do not interact in the relay, so one video room is driven.
NextRelay ==
  \/ /\ \/ \E a \in CapCreators :
             nextVRoom \in CapKeys /\ createRoom(a) /\ UNCHANGED sockets
        \/ \E s \in Sockets :
             connection(s) /\ UNCHANGED videoVars
        \/ \E s \in Sockets, r \in CapKeys : join_video_room(s, r)
        \/ \E s \in Sockets : leave_video_room(s)
        \/ \E s \in Sockets :
             disconnect(s)
     /\ UNCHANGED <<now, alive, chatVars, meetingVars, restVars, redisVars, authVars, rateVars, svc>>
  \/ /\ \E kind \in RelayKinds, s \in Sockets, tsid \in Targets, target \in Targets :
          webrtc_relay(kind, s, tsid, target)
     /\ UNCHANGED <<now, alive, chatVars, meetingVars, restVars, redisVars, authVars, rateVars, svc>>
SpecRelay == InitVideo /\ [][NextRelay]_vars

\* the chat handlers of the sockets next to the burner rooms of the service
NextChatSocket ==
  /\ \/ /\ \/ \E a \in Anon : createBurnerRoom(a, RoomPasscode)
           \/ \E k \in Keys, p \in Passcodes, a \in Anon : joinBurnerRoom(k, p, a)
           \/ \E k \in Keys, a \in Anon : leaveBurnerRoom(k, a)
        /\ UNCHANGED sockets
     \/ \E s \in MSockets : connection(s) /\ UNCHANGED chatVars
     \/ \E s \in MSockets, k \in Keys : join_room(s, k)
     \/ \E s \in MSockets, k \in Keys : leave_room(s, k)
     \/ \E s \in MSockets, k \in KnownKeys, ok \in BOOLEAN :
          anon_msg(s, k, ok, MaxMsgs)
  /\ UNCHANGED <<now, alive, videoVars, meetingVars, restVars, redisVars,
                 authVars, rateVars, svc>>
SpecChatSocket == InitChat /\ [][NextChatSocket]_vars

\* one connection sends a burst of messages to the global room within one
\* window while another connection listens
NextFlood ==
  /\ \/ \E s \in MSockets : connection(s) /\ UNCHANGED chatVars
     \/ \E ok \in BOOLEAN : anon_msg(1, GlobalKey, ok, FloodMsgs)
  /\ UNCHANGED <<now, alive, videoVars, meetingVars, restVars, redisVars,
                 authVars, rateVars, svc>>
SpecFlood == InitChat /\ [][NextFlood]_vars

\* the signaling buffers of the video service: two connections, one room
\* (the buffers of a room do not depend on other rooms), offers, answers
\* and candidates with their payloads
NextSignal ==
  \/ /\ \/ \E a \in CapCreators : nextVRoom \in CapKeys /\ createRoom(a)
        \/ \E s \in MSockets, r \in CapKeys : joinRoom(s, AnonOf(s), r)
        \/ \E s \in MSockets : leaveRoom(s)
        \/ \E kind \in RelayKinds, s \in MSockets, payload \in Payloads :
             handleSignal(kind, s, payload)
     /\ UNCHANGED <<now, alive, chatVars, meetingVars, restVars, redisVars,
                    sockets, authVars, rateVars, svc>>
SpecSignal == InitVideo /\ [][NextSignal]_vars

\* identities and tokens: the auth routes and the socket 'auth' handler
NextAuth ==
  \/ /\ \/ \E a \in Anon : generateAnonIdRoute(a)
        \/ \E tok \in Presentable : verifyTokenRoute(tok)
        \/ \E tok \in Presentable : refreshTokenRoute(tok)
        \/ \E s \in MSockets, tok \in Presentable : auth(s, tok)
     /\ UNCHANGED <<now, alive, chatVars, videoVars, meetingVars, restVars,
                    redisVars, rateVars, svc>>
  \/ TickAuth
InitAuth == Init /\ svc = "auth"
SpecAuth == InitAuth /\ [][NextAuth]_vars

\* a socket authenticates with an issued token and goes on using a gated
\* handler while the clock of the token runs
NextAuthSocket ==
  \/ /\ \/ \E a \in Anon : generateAnonIdRoute(a) /\ UNCHANGED chatVars
        \/ \E s \in MSockets, tok \in Presentable : auth(s, tok) /\ UNCHANGED chatVars
        \/ \E s \in MSockets, k \in Keys : join_room(s, k) /\ UNCHANGED issued
     /\ UNCHANGED <<now, alive, videoVars, meetingVars, restVars, redisVars,
                    rateVars, svc>>
  \/ TickAuth
SpecAuthSocket == InitAuth /\ [][NextAuthSocket]_vars

\* identity issuance behind the rate limiters, with the adaptive adjustment
NextRate ==
  \/ /\ Hits(buckets) < MaxHits
     /\ \/ \E fp \in Fingerprints, a \in CapCreators : httpGenerateAnonId(fp, a)
        \/ \E fp \in Fingerprints, a \in CapCreators : serverGenerateAnonId(fp, a)
     /\ UNCHANGED <<now, alive, chatVars, videoVars, meetingVars, restVars,
                    redisVars, sockets, svc>>
  \/ /\ \E load \in Loads : adjustLimits(load)
     /\ UNCHANGED <<now, alive, chatVars, videoVars, meetingVars, restVars,
                    redisVars, sockets, authVars, svc>>
  \/ TickRate
InitRate == Init /\ svc = "rate"
SpecRate == InitRate /\ [][NextRate]_vars

\* the gated chat routes and the gated identity route, one route per run;
\* the room of the join run is created through the service
NextGate ==
  \/ /\ svc = "create-room"
     /\ Hits(buckets) < MaxHits
     /\ \E fp \in Fingerprints, a \in {0} \cup CapCreators : httpCreateRoom(fp, a)
     /\ UNCHANGED <<now, alive, videoVars, meetingVars, restVars, redisVars,
                    sockets, authVars, svc>>
  \/ /\ svc = "join-room"
     /\ \/ /\ \E a \in CapCreators : createBurnerRoom(a, RoomPasscode)
           /\ UNCHANGED rateVars
        \/ /\ Hits(buckets) < StaticPoints["api"] + 2
           /\ \E fp \in Fingerprints, k \in CapKeys, a \in Anon :
                httpJoinRoom(fp, k, RoomPasscode, a)
     /\ UNCHANGED <<now, alive, videoVars, meetingVars, restVars, redisVars,
                    sockets, authVars, svc>>
  \/ /\ svc = "rate"
     /\ Hits(buckets) < MaxHits
     /\ \E fp \in Fingerprints, a \in CapCreators : httpGenerateAnonId(fp, a)
     /\ UNCHANGED <<now, alive, chatVars, videoVars, meetingVars, restVars,
                    redisVars, sockets, svc>>
  \/ svc \in {"create-room", "rate"} /\ TickRate
InitGate == Init /\ svc \in {"create-room", "join-room", "rate"}
SpecGate == InitGate /\ [][NextGate]_vars

\* the adaptive limiter on its own, over enough samples to reach both clamps
NextAdaptive ==
  \/ /\ \E load \in Loads : adjustLimits(load)
     /\ UNCHANGED <<now, alive, chatVars, videoVars, meetingVars, restVars,
                    redisVars, sockets, authVars, svc>>
  \/ TickAdaptive
SpecAdaptive == InitRate /\ [][NextAdaptive]_vars

\* the privacy-aware limiter on its own
NextPrivacy ==
  \/ /\ \E fp \in Fingerprints :
          /\ fp \in DOMAIN requests => requests[fp].count < MaxHits
          /\ privacyAwareRateLimit(fp)
     /\ UNCHANGED <<now, alive, chatVars, videoVars, meetingVars, restVars,
                    redisVars, sockets, authVars, svc>>
  \/ TickAuth
InitPrivacy == Init /\ svc = "privacy"
SpecPrivacy == InitPrivacy /\ [][NextPrivacy]_vars

\* the services share no state: a run drives the service svc names
Next ==
  \/ svc = "chat" /\ NextChat
  \/ svc = "video" /\ NextVideo
  \/ svc = "meeting" /\ NextMeeting
  \/ svc = "rest" /\ NextRest
  \/ svc = "redis" /\ NextRedis
Spec == Init /\ [][Next]_vars

(* ------------------------------- claims -------------------------------- *)
BurnerRooms == {k \in DOMAIN rooms : rooms[k].kind = "room"}

\* C1: every text (burner) room holds at most maxParticipants = 10
\* participants and every video room at most maxParticipants = 2, in every
\* state reachable by create, join and leave calls.
C1_TextVideoCapacity ==
  /\ \A k \in BurnerRooms :
        /\ rooms[k].maxParticipants = TextMaxParticipants
        /\ Cardinality(rooms[k].participants) <= rooms[k].maxParticipants
  /\ \A r \in DOMAIN vrooms :
        /\ vrooms[r].maxParticipants = VideoMaxParticipants
        /\ Cardinality(vrooms[r].participants) <= vrooms[r].maxParticipants

\* a text room filled to its maximum has just turned away one more identity
\* that presented the right passcode
C1_Witness ==
  /\ res.op = "joinBurnerRoom"
  /\ res.out = "Room is full"
  /\ IsRoom(res.id)
  /\ res.data = rooms[res.id].passcode
  /\ Cardinality(rooms[res.id].participants) = TextMaxParticipants
  /\ res.who \notin rooms[res.id].participants

\* C2: every meeting of the meeting service holds at most its current
\* maxParticipants participants, also after updateMeeting changed the value.
C2_MeetingCapacity ==
  \A m \in DOMAIN meetings :
    Cardinality(meetings[m].participants) <= meetings[m].maxParticipants

\* what a join step on a meeting with c participants and capacity N does
C3_MeetingJoinStep(s, m, p) ==
  LET c == Cardinality(meetings[m].participants)
      N == meetings[m].maxParticipants
  IN  IF c < N
      THEN /\ res'.out = "ok"
           /\ meetings'[m].participants = meetings[m].participants \cup {s}
           /\ s \in DOMAIN mparts'
      ELSE /\ res'.out = "Meeting is full"
           /\ meetings' = meetings
           /\ mparts' = mparts

\* what a join step on a video room with c participants and capacity N does
C3_VideoJoinStep(s, r) ==
  LET c == Cardinality(vrooms[r].participants)
      N == vrooms[r].maxParticipants
  IN  IF c < N
      THEN /\ res'.out = "ok"
           /\ vrooms'[r].participants = vrooms[r].participants \cup {s}
           /\ s \in DOMAIN vparts'
      ELSE /\ res'.out = "Room is full"
           /\ vrooms' = vrooms
           /\ vparts' = vparts

\* C3: join handlers are atomic.  A join by a connection that is not a
\* member, on a stored meeting (not expired, passcode accepted) or a stored
\* video room, is admitted exactly when the room holds fewer participants
\* than its capacity; otherwise it gets the room-full error and the
\* participant sets stay as they were.  So of m > N - c joiners exactly
\* N - c are admitted, whatever the order.
C3_JoinsAtomic ==
  [][ /\ \A s \in MSockets, m \in MKeys, p \in Passcodes :
          ( /\ m \in DOMAIN meetings
            /\ s \notin meetings[m].participants
            /\ ~isMeetingExpired(meetings[m])
            /\ (meetings[m].requirePasscode => meetings[m].passcode = p)
            /\ joinMeeting(s, AnonOf(s), m, p) )
          => C3_MeetingJoinStep(s, m, p)
      /\ \A s \in Sockets, r \in VKeys :
          ( /\ r \in DOMAIN vrooms
            /\ s \notin vrooms[r].participants
            /\ joinRoom(s, AnonOf(s), r) )
          => C3_VideoJoinStep(s, r) ]_vars

\* a meeting of capacity 1 holds one participant, and a second connection
\* that presented the meeting's passcode was just turned away
C3_Witness ==
  /\ res.op = "joinMeeting"
  /\ res.out = "Meeting is full"
  /\ res.id \in DOMAIN meetings
  /\ meetings[res.id].maxParticipants = 1
  /\ Cardinality(meetings[res.id].participants) = 1
  /\ res.who \notin meetings[res.id].participants
  /\ res.data = meetings[res.id].passcode

\* a join that passed every check of the room completes as a successful join
C4_RedisJoinCompletes ==
  ( /\ res.op = "redisJoin"
    /\ res.data.read.found
    /\ res.data.read.expires > now
    /\ res.data.read.passcode = res.data.passcode
    /\ Cardinality(Members(res.data.read.participants))
         < res.data.read.maxParticipants )
    => res.out = "ok"

\* with no call suspended, the stored list is the set of successful joiners
C4_RedisListExact ==
  (\A t \in Tasks : rtasks[t].pc = "idle")
    => \A k \in DOMAIN rstore :
         LET room == rstore[k].json IN
         /\ Members(room.participants) \ {room.creator}
              = {a \in Anon : rlast[a] = "join"} \ {room.creator}
         /\ Cardinality(Members(room.participants)) <= room.maxParticipants

\* C4: in the Redis variant joins and leaves on one room lose no update and
\* never exceed the capacity.  A join that read the room stored, unexpired
\* and below its capacity, and presented the room's passcode, completes as a
\* successful join; and whenever no call is suspended, the stored participant
\* list names, besides the creator, exactly the identities whose last
\* completed request was a successful join, at most maxParticipants of them.
C4_RedisNoLostUpdate == C4_RedisJoinCompletes /\ C4_RedisListExact

\* C5: once now >= room.expires, getRoomInfo (and with it the route
\* GET /api/chat/room/:roomId) does not return the burner room.
C5_NoRoomInfoAfterExpiry ==
  ~ ( /\ res.op = "getRoomInfo"
      /\ res.out = "info"
      /\ res.data.kind = "room"
      /\ now >= res.data.expires )

\* C6: getRecentMessages returns no message whose expires is <= now, also
\* when the sweep has not yet removed the message from the store.
C6_NoExpiredMessageReturned ==
  (res.op = "getRecentMessages" /\ res.out = "ok")
    => \A i \in 1..Len(res.data) : res.data[i].expires > now

\* the room's array still lists a stored message that has expired, and the
\* read just answered with another message of that room
C6_Witness ==
  /\ res.op = "getRecentMessages"
  /\ res.out = "ok"
  /\ Len(res.data) >= 1
  /\ IsIdArray(res.id)
  /\ \E id \in SeqSet(rooms[res.id].ids) :
        id \in DOMAIN messages /\ messages[id].expires <= now

\* C7: a well-formed message sent with room = R, the id of a stored burner
\* room, is accepted by processMessage.
C7_MessageToRoomAccepted ==
  ( /\ res.op = "processMessage"
    /\ IsRoom(res.id)
    /\ res.out # "Invalid message content" )
    => res.out = "ok"

\* C8: every text room and every video room is eventually removed from its
\* store by the server's own timers, also when no client reads, joins or
\* leaves: a stored room whose lifetime is over leads to the room's absence.
C8_TimersRemoveRooms ==
  /\ \A k \in Keys :
        (IsRoom(k) /\ now >= rooms[k].expires) ~> ~IsRoom(k)
  /\ \A r \in VKeys :
        (r \in DOMAIN vrooms /\ now - vrooms[r].createdAt > VideoMaxAge)
          ~> (r \notin DOMAIN vrooms)

\* C9: once now >= the expiry instant of a meeting, no info read returns the
\* meeting, neither GET /api/meeting/:roomId (expiresAt) nor getMeetingInfo
\* (scheduledFor + duration + grace).
C9_NoMeetingInfoAfterExpiry ==
  ~ ( /\ res.op \in {"getMeetingInfo", "restGet"}
      /\ res.out = "ok"
      /\ now >= res.data.expiry )

\* C10: a join on a text room or meeting that is still stored while its
\* expiry instant has passed is answered with the expired error and deletes
\* the room, whatever passcode it presents; in particular it never gets the
\* invalid-passcode error.
C10_ExpiredBeforePasscode ==
  [][ /\ \A k \in Keys, p \in Passcodes, a \in Anon :
          ( /\ IsRoom(k)
            /\ now > rooms[k].expires
            /\ joinBurnerRoom(k, p, a) )
          => (res'.out = "Room expired" /\ k \notin DOMAIN rooms')
      /\ \A s \in MSockets, m \in MKeys, p \in Passcodes :
          ( /\ m \in DOMAIN meetings
            /\ now > meetings[m].scheduledFor + meetings[m].duration + MeetingGrace
            /\ joinMeeting(s, AnonOf(s), m, p) )
          => (res'.out = "Meeting has expired" /\ m \notin DOMAIN meetings')
      /\ \A r \in RKeys, p \in Passcodes, a \in Anon :
          ( /\ r \in DOMAIN restMeetings
            /\ now > restMeetings[r].expiresAt
            /\ restJoin(r, p, a) )
          => (res'.out = "Meeting expired" /\ r \notin DOMAIN restMeetings')
    ]_vars

\* a join that presented another passcode than the room's, after the room's
\* expiry, was answered with the expired error and the room is gone
C10_Witness ==
  /\ res.op = "joinBurnerRoom"
  /\ res.out = "Room expired"
  /\ res.data # RoomPasscode
  /\ res.id \notin DOMAIN rooms
  /\ now > RoomTTL

\* C11: a join on an unexpired text room with another passcode than the
\* room's gets the invalid-passcode error and leaves the store as it was,
\* however often it is tried; a join with the room's passcode by a new
\* identity, while the creator is the only participant, succeeds with
\* participantCount = 2.
C11_WrongPasscodeRejected ==
  [][ \A k \in Keys, p \in Passcodes, a \in Anon :
        /\ ( /\ IsRoom(k)
              /\ rooms[k].expires > now
              /\ rooms[k].passcode # p
              /\ joinBurnerRoom(k, p, a) )
            => (res'.out = "Invalid passcode" /\ rooms' = rooms)
        /\ ( /\ IsRoom(k)
              /\ rooms[k].expires > now
              /\ rooms[k].passcode = p
              /\ rooms[k].participants = {rooms[k].creator}
              /\ a # rooms[k].creator
              /\ joinBurnerRoom(k, p, a) )
            => ( /\ res'.out = "ok"
                 /\ res'.data = 2
                 /\ rooms'[k].participants = {rooms[k].creator, a} )
    ]_vars

\* an unexpired room just turned away a join that presented another passcode
C11_Witness ==
  /\ res.op = "joinBurnerRoom"
  /\ res.out = "Invalid passcode"
  /\ IsRoom(res.id)
  /\ rooms[res.id].expires > now
  /\ res.data # rooms[res.id].passcode
  /\ res.who \notin rooms[res.id].participants

\* C12: once the host has ended a meeting through endMeeting, or a REST
\* meeting has status 'ended', a join on it is answered "Meeting not found"
\* and adds no participant, while the record is still stored as well as after
\* its deletion.
C12_NoJoinAfterEnd ==
  [][ /\ \A s \in MSockets, m \in MKeys, p \in Passcodes :
           ( /\ res.op = "endMeeting"
             /\ res.out = "ok"
             /\ res.id = m
             /\ joinMeeting(s, AnonOf(s), m, p) )
           => ( /\ res'.out = "Meeting not found"
                /\ m \in DOMAIN meetings' => meetings'[m].participants = {} )
      /\ \A r \in RKeys, p \in Passcodes, a \in Anon :
           ( /\ r \in DOMAIN restMeetings
             /\ restMeetings[r].status = "ended"
             /\ restJoin(r, p, a) )
           => ( /\ res'.out = "Meeting not found"
                /\ r \in DOMAIN restMeetings'
                     => restMeetings'[r].participants = restMeetings[r].participants )
    ]_vars

\* C13: right after the creation of a text room, a video room or a meeting,
\* the creator is the only participant of the new room (participant count
\* 1), and for a meeting a participant entry with role host exists for it.
C13_CreatorSoleParticipant ==
  /\ (res.op = "createBurnerRoom" /\ res.out = "ok" /\ IsRoom(res.id))
       => rooms[res.id].participants = {res.who}
  /\ (res.op = "createRoom" /\ res.out = "ok" /\ res.id \in DOMAIN vrooms)
       => /\ Cardinality(vrooms[res.id].participants) = 1
          /\ \A s \in vrooms[res.id].participants :
                s \in DOMAIN vparts /\ vparts[s].anonId = res.who
  /\ (res.op = "createMeeting" /\ res.out = "ok" /\ res.id \in DOMAIN meetings)
       => /\ Cardinality(meetings[res.id].participants) = 1
          /\ \A s \in meetings[res.id].participants :
                /\ s \in DOMAIN mparts
                /\ mparts[s].anonId = res.who
                /\ mparts[s].role = "host"

\* the connection s is at this moment a participant of meeting m and its host
C14_IsHostIn(s, m) ==
  /\ m \in DOMAIN meetings
  /\ s \in meetings[m].participants
  /\ s \in DOMAIN mparts
  /\ mparts[s].meetingId = m
  /\ mparts[s].role = "host"

\* C14: updateMeeting and endMeeting change a meeting only for a caller that
\* is currently a participant of that meeting and its host; for every other
\* caller they answer with an error and leave the meeting record as it was.
C14_HostOnlyChange ==
  [][ \A s \in MSockets, m \in MKeys :
        ( /\ m \in DOMAIN meetings
          /\ ~C14_IsHostIn(s, m)
          /\ \/ \E v \in MaxInputs \ {0} : updateMeeting(s, m, v)
             \/ endMeeting(s, m) )
        => (res'.out # "ok" /\ meetings' = meetings)
    ]_vars

\* C15: after endMeeting succeeded the meeting's participant set is empty,
\* and handleMeetingMessage, updateMeeting and endMeeting called next by a
\* former participant of that meeting (the host included) return an error.
C15_NobodyActsAfterEnd ==
  [][ (res.op = "endMeeting" /\ res.out = "ok" /\ res.id \in DOMAIN meetings)
      => /\ meetings[res.id].participants = {}
         /\ \A s \in res.data :
              ( \/ s \in DOMAIN mparts /\ mparts[s].meetingId = res.id
                                       /\ handleMeetingMessage(s)
                \/ \E v \in MaxInputs \ {0} : updateMeeting(s, res.id, v)
                \/ endMeeting(s, res.id) )
              => res'.out # "ok"
    ]_vars

\* C16: a meeting its host ended, and an auto-delete meeting its last
\* participant left, has a deletion timer pending; once the delay has passed
\* the meeting is removed from the store, with no client request needed.
C16_EndedMeetingRemoved ==
  \A m \in MKeys :
    (\E t \in mtimers : t.id = m /\ t.due <= MaxTime) ~> (m \notin DOMAIN meetings)

\* a meeting is gone from the store at a time when no expiry test could have
\* removed it yet: its deletion timer was set by an end or a last leave, came
\* due and ran
C16_Witness ==
  /\ \E m \in MKeys : m < nextMeeting /\ m \notin DOMAIN meetings
  /\ mtimers = {}
  /\ now >= DeleteDelay
  /\ now <= MeetingDuration + MeetingGrace

\* C17: a second leave for the same connection and room, right after a first
\* one, yields no error and changes no state, for leaveBurnerRoom, the video
\* leaveRoom and leaveMeeting.
C17_LeaveIdempotent ==
  [][ /\ \A k \in Keys, a \in Anon :
           ( /\ res.op = "leaveBurnerRoom" /\ res.id = k /\ res.who = a
             /\ leaveBurnerRoom(k, a) )
           => (res'.out = "ok" /\ UNCHANGED chatVars)
      /\ \A s \in Sockets :
           ( /\ res.op = "leaveRoom" /\ res.who = s /\ res.out = "ok"
             /\ leaveRoom(s) )
           => (res'.out = "ok" /\ UNCHANGED videoVars)
      /\ \A s \in MSockets :
           ( /\ res.op = "leaveMeeting" /\ res.who = s /\ res.out = "ok"
             /\ leaveMeeting(s) )
           => (res'.out = "ok" /\ UNCHANGED meetingVars)
    ]_vars

\* C19: at every instant a socket id is in the participant set of at most
\* one video room and of at most one meeting.
C19_OneRoomPerKind ==
  /\ \A s \in Sockets :
       Cardinality({r \in DOMAIN vrooms : s \in vrooms[r].participants}) <= 1
  /\ \A s \in MSockets :
       Cardinality({m \in DOMAIN meetings : s \in meetings[m].participants}) <= 1

\* C18: once a socket has disconnected, its id is in the participant set of
\* no video room and of no meeting, and neither service holds a
\* back-reference entry for it, whatever it joined and left before.
C18_NothingLeftAfterDisconnect ==
  \A s \in Sockets :
    sockets[s].st = "closed"
    => /\ s \notin DOMAIN vparts
       /\ s \notin DOMAIN mparts
       /\ \A r \in DOMAIN vrooms : s \notin vrooms[r].participants
       /\ \A m \in DOMAIN meetings : s \notin meetings[m].participants

\* C20: an offer, answer or ICE candidate sent without targetSocketId by a
\* participant of a room with exactly 2 participants is delivered to the
\* other participant; sent from a room with fewer than 2 participants the
\* relay reports a NoTarget failure and the envelope is delivered to no one.
C20_RelayToOther ==
  [][ \A kind \in RelayKinds, s \in Sockets, target \in Targets :
        ( /\ handleRelayOutcome(s) = "ok"
          /\ webrtc_relay(kind, s, 0, target) )
        => LET room == vrooms[vparts[s].roomId] IN
           /\ Cardinality(room.participants) = 2
                => res'.data = room.participants \ {s}
           /\ Cardinality(room.participants) < 2
                => (res'.out = "NoTarget" /\ res'.data = {})
    ]_vars

\* C21: a signaling envelope is forwarded only to current participants of
\* the sender's video room; when the explicit target is not a participant of
\* that room the relay fails with NoTarget and forwards nothing.
C21_RelayOnlyToParticipants ==
  [][ \A kind \in RelayKinds, s \in Sockets, tsid \in Sockets, target \in Targets :
        ( /\ handleRelayOutcome(s) = "ok"
          /\ webrtc_relay(kind, s, tsid, target) )
        => LET room == vrooms[vparts[s].roomId] IN
           /\ res'.data \subseteq room.participants
           /\ tsid \notin room.participants
                => (res'.out = "NoTarget" /\ res'.data = {})
    ]_vars

\* C22: a token generateTempToken issued verifies at issuance and at every
\* instant before its expiresAt (the exp claim: the second of issue plus the
\* lifetime), and fails to verify at every instant after expiresAt; the
\* verify-token route answers accordingly.
C22_TokenValidUntilExpiry ==
  /\ \A tok \in issued :
       LET expiresAt == tok.exp * TicksPerSecond IN
       /\ tok.exp = tok.iat + TokenLifetime
       /\ now < expiresAt => verifyTempToken(tok) = [thrown |-> FALSE, value |-> tok]
       /\ now > expiresAt => verifyTempToken(tok).value = NullToken
  /\ (res.op = "generate-anon-id" /\ res.out = "ok")
       => verifyTempToken(res.data).value = res.data
  /\ (res.op = "verify-token" /\ res.out = "ok")
       => (res.data.token \in issued /\ now < res.data.expiresAt)
  /\ (res.op = "verify-token" /\ res.out # "ok" /\ res.data \in issued)
       => now >= res.data.exp * TicksPerSecond

\* an issued token was presented after its expiresAt and turned away
C22_Witness ==
  /\ res.op = "verify-token"
  /\ res.out = "Invalid or expired token"
  /\ res.data \in issued
  /\ now > res.data.exp * TicksPerSecond

\* C23: for a token that is malformed, expired or signed with another
\* secret, verifyTempToken returns null and does not throw; the socket
\* 'auth' handler then answers auth_error and leaves the socket as it was
\* (an unauthenticated socket stays unauthenticated), and verify-token
\* answers with the invalid-token error.
C23_VerifyFailsClosed ==
  [][ \A tok \in Presentable :
        jwtVerify(tok) # "ok"
        => /\ verifyTempToken(tok) = [thrown |-> FALSE, value |-> NullToken]
           /\ \A s \in MSockets :
                auth(s, tok)
                => /\ res'.out = "auth_error: Invalid token"
                   /\ sockets' = sockets
           /\ verifyTokenRoute(tok) => res'.out = "Invalid or expired token"
    ]_vars

\* an unauthenticated socket presented an expired token of the server's own
\* making and is still unauthenticated
C23_Witness ==
  /\ res.op = "auth"
  /\ res.out = "auth_error: Invalid token"
  /\ res.data \in issued
  /\ sockets[res.who].st = "new"
  /\ \E tok \in issued : jwtVerify(tok) = "ok"

\* C24: refresh-token issues a new token, for the same identity and with a
\* full lifetime from now, exactly when the presented token is valid and has
\* less than the threshold remaining; for a valid token with the threshold
\* or more remaining it issues nothing and returns the remaining lifetime;
\* for an invalid or expired token it returns the invalid-token error and
\* issues nothing.
C24_RefreshOnlyNearExpiry ==
  [][ \A tok \in Presentable :
        refreshTokenRoute(tok)
        => LET remaining == tok.exp * TicksPerSecond - now IN
           IF jwtVerify(tok) = "ok" /\ remaining < RefreshThreshold
           THEN /\ res'.out = "refreshed"
                /\ res'.data.tempToken.anonId = tok.anonId
                /\ res'.data.tempToken.exp = Seconds(now) + TokenLifetime
                /\ verifyTempToken(res'.data.tempToken).value = res'.data.tempToken
                /\ issued' = issued \cup {res'.data.tempToken}
           ELSE IF jwtVerify(tok) = "ok"
           THEN /\ res'.out = "no refresh needed"
                /\ res'.data.timeRemaining = remaining
                /\ issued' = issued
           ELSE /\ res'.out = "Invalid or expired token"
                /\ issued' = issued
    ]_vars

\* a token in its last moments was exchanged for a new one that outlives it
C24_Witness ==
  /\ res.op = "refresh-token"
  /\ res.out = "refreshed"
  /\ res.data.token \in issued
  /\ res.data.tempToken \in issued
  /\ res.data.tempToken.exp > res.data.token.exp
  /\ res.data.token.exp * TicksPerSecond - now < RefreshThreshold

\* C25: once the anonId bucket a fingerprint's requests are counted in holds
\* 5 requests of the running window, a further identity request of that
\* fingerprint, on either issuance endpoint and at any time, is answered 429
\* with retryAfter >= 1 and issues no token.
C25_SixthIdentityDenied ==
  [][ \A fp \in Fingerprints, a \in CapCreators :
        LET k == <<"anonId", ConsumeKey(fp)>> IN
        ( /\ k \in DOMAIN buckets
          /\ buckets[k].expiresAt > now
          /\ buckets[k].value >= StaticPoints["anonId"]
          /\ httpGenerateAnonId(fp, a) \/ serverGenerateAnonId(fp, a) )
        => ( /\ res'.out = "429"
             /\ res'.data.retryAfter >= 1
             /\ issued' = issued )
    ]_vars

\* C26: after any number of adjustLimits samples the multiplier is within
\* [0.5, 2.0], and one sample moves it by at most 0.1: down only when the
\* heap use is above 80%, up only when it is below 50%, not at all otherwise.
C26_MultiplierBounded ==
  [][ /\ currentMultiplier >= MinMultiplier
      /\ currentMultiplier <= MaxMultiplier
      /\ \A load \in Loads :
           adjustLimits(load)
           => /\ currentMultiplier' >= MinMultiplier
              /\ currentMultiplier' <= MaxMultiplier
              /\ currentMultiplier' - currentMultiplier \in {-1, 0, 1}
              /\ load = "high" => currentMultiplier' <= currentMultiplier
              /\ load = "low" => currentMultiplier' >= currentMultiplier
              /\ load = "mid" => currentMultiplier' = currentMultiplier
    ]_vars

\* a sample under high load found the multiplier at the lower clamp and
\* left it there
C26_Witness ==
  /\ res.op = "adjustLimits"
  /\ res.out = "high"
  /\ res.data = MinMultiplier
  /\ currentMultiplier = MinMultiplier

\* C27: after every adjustment each class's points are that class's own
\* static points scaled by the current multiplier.
C27_PointsScaledPerClass ==
  \A c \in RateClasses : points[c] = ScaledOwn(c, currentMultiplier)

\* C28: a room-creation, join or identity request the limiter denies is
\* answered 429 and its handler does not run: the rooms, the participants,
\* the messages and the issued identities are as before the request.
C28_DenialLeavesStateAlone ==
  [][ \A fp \in Fingerprints :
        /\ ~Gates("roomCreation", fp).ok
            => \A a \in {0} \cup CapCreators :
                 httpCreateRoom(fp, a)
                 => res'.out = "429" /\ UNCHANGED <<chatVars, issued>>
        /\ ~Gates("api", fp).ok
            => \A k \in CapKeys, a \in Anon :
                 httpJoinRoom(fp, k, RoomPasscode, a)
                 => res'.out = "429" /\ UNCHANGED <<chatVars, issued>>
        /\ ~Gates("anonId", fp).ok
            => \A a \in CapCreators :
                 httpGenerateAnonId(fp, a)
                 => res'.out = "429" /\ UNCHANGED <<chatVars, issued>>
    ]_vars

\* a room exists and a further create-room request was denied
C28_Witness ==
  /\ res.op = "create-room"
  /\ res.out = "429"
  /\ res.data.type = "roomCreation"
  /\ DOMAIN rooms # {}

\* C29: in privacyAwareRateLimit a request that arrives more than the
\* window after the start of its key's window starts a new window and is
\* counted as its first; within one window the first max requests of a key
\* reach the next handler and every further one is answered 429.
C29_WindowedCount ==
  [][ \A fp \in Fingerprints :
        privacyAwareRateLimit(fp)
        => LET old == fp \in DOMAIN requests
               late == old /\ now - requests[fp].resetTime > PrivacyWindow
           IN /\ (~old \/ late)
                 => /\ requests'[fp] = [count |-> 1, resetTime |-> now]
                    /\ res'.out = "next"
              /\ (old /\ ~late)
                 => /\ requests'[fp].resetTime = requests[fp].resetTime
                    /\ requests'[fp].count = requests[fp].count + 1
                    /\ (res'.out = "next") = (requests[fp].count < PrivacyMax)
                    /\ (res'.out = "429") = (requests[fp].count >= PrivacyMax)
    ]_vars

\* in a window that started after the first one had run out, a key was let
\* through max times and then refused
C29_Witness ==
  /\ res.op = "privacyAwareRateLimit"
  /\ res.out = "429"
  /\ res.data.count = PrivacyMax + 1
  /\ res.data.resetTime > PrivacyWindow
  /\ now = res.data.resetTime + PrivacyWindow

\* C30: budgets are kept per (class, fingerprint): in every state and for
\* every class, whether the limiter lets a request of fingerprint F2
\* through is the same before and after a request of another fingerprint F1.
C30_BudgetsPerFingerprint ==
  \A c \in RateClasses, f1 \in Fingerprints, f2 \in Fingerprints :
    f1 # f2
    => Gate(Gate(buckets, c, f1).buckets, c, f2).ok = Gate(buckets, c, f2).ok

\* C31: the status of a meeting only moves forward, waiting -> active ->
\* ended: an ended meeting never becomes active or waiting again and an
\* active meeting never returns to waiting.
C31_StatusOnlyForward ==
  [][ \A r \in DOMAIN restMeetings \cap DOMAIN restMeetings' :
        /\ restMeetings[r].status = "ended"
            => restMeetings'[r].status = "ended"
        /\ restMeetings[r].status = "active"
            => restMeetings'[r].status # "waiting"
    ]_vars

\* C32: a signaling envelope is forwarded only if its sender has
\* authenticated and is inside a video room; a webrtc_offer, webrtc_answer
\* or webrtc_ice_candidate event of any other socket is emitted to nobody.
C32_RelayOnlyFromRoomMembers ==
  [][ \A s \in Sockets :
        (~Open(s) \/ s \notin DOMAIN vparts)
        => \A kind \in RelayKinds, tsid \in Targets, target \in Targets :
             webrtc_relay(kind, s, tsid, target) => res'.data = {}
    ]_vars

\* C33: messages of a burner room are exchanged among its admitted
\* participants only: an anon_msg for a live burner room R stores and
\* delivers a message only when the sender's identity is a participant of
\* R, and a 'msg' event for R reaches only sockets of R's participants.
C33_MessagesAmongAdmitted ==
  [][ \A s \in MSockets, k \in KnownKeys, ok \in BOOLEAN :
        ( /\ IsRoom(k)
          /\ anon_msg(s, k, ok, MaxMsgs) )
        => /\ \A t \in res'.data : AnonOf(t) \in rooms[k].participants
           /\ AnonOf(s) \notin rooms[k].participants
                => (messages' = messages /\ res'.data = {})
    ]_vars

\* C34: message sends of a socket are admission-controlled: of the anon_msg
\* events one connection emits within a window of the 'messages' policy at
\* most 30 are stored and broadcast; the excess is answered with
\* rate_limit_exceeded.
C34_MessageSendsLimited ==
  \A a \in Anon :
    Cardinality({id \in DOMAIN messages :
                   /\ messages[id].anonId = a
                   /\ now - (messages[id].expires - MsgTTL) < Duration["messages"]})
      <= StaticPoints["messages"]

C36_SweepCompletes ==
  [][ cleanupExpiredMessages
      => /\ alive'
         /\ \A id \in DOMAIN messages' : messages'[id].expires > now
         /\ \A k \in DOMAIN rooms' :
              \A i \in 1..Len(rooms'[k].ids) :
                rooms'[k].ids[i] \in DOMAIN messages'
    ]_vars

\* C37: the deletion scheduled when the last participant left a meeting
\* never removes a meeting that has participants when the timer fires: a
\* meeting somebody joined during the delay is still in the store, with
\* its participants, after the delay.
C37_TimerSparesOccupiedMeeting ==
  [][ \A t \in mtimers :
        ( /\ t.id \in DOMAIN meetings
          /\ meetings[t.id].participants # {}
          /\ meetingTimer(t) )
        => /\ t.id \in DOMAIN meetings'
           /\ meetings'[t.id].participants = meetings[t.id].participants
    ]_vars

\* C38: whenever processMessage throws the chat store is unchanged: no
\* message was added to the message map and no room index or room record
\* was modified.
C38_FailedMessageLeavesStore ==
  [][ \A k \in KnownKeys, a \in Anon, ok \in BOOLEAN :
        ( /\ processMessageResult(k, a, ok).out # "ok"
          /\ processMessage(k, a, ok) )
        => UNCHANGED <<messages, rooms, roomOrder>>
    ]_vars

\* C39: the authenticated status of a socket does not outlive its
\* credential: when every token issued so far has passed its expiresAt (so
\* the one the socket presented has), a gated operation of the socket is
\* rejected as not authenticated.
C39_AuthEndsWithCredential ==
  [][ \A s \in MSockets :
        ( /\ Open(s)
          /\ \A tok \in issued : verifyTempToken(tok).value = NullToken )
        => \A k \in Keys :
             join_room(s, k)
             => /\ res'.out = "Not authenticated"
                /\ sockets' = sockets
    ]_vars

\* C40: in the video-signaling service every back-reference
\* participants[s] = {roomId: r} names a room r that is in the store and
\* has s in its participant set, also after cleanupExpiredRooms removed
\* rooms.
C40_BackReferencesValid ==
  \A s \in DOMAIN vparts :
    /\ vparts[s].roomId \in DOMAIN vrooms
    /\ s \in vrooms[vparts[s].roomId].participants
====
